---- MODULE Spec2Model ----
(***************************************************************************)
(* Model of the MySQL wire-protocol packet codec of node-mysql2:           *)
(* Packet (cursor over a byte buffer), PacketParser (primitive decoders),  *)
(* CastField (typeCast adapter) and the binary row-parser compiler.        *)
(*                                                                         *)
(* JavaScript numbers are IEEE doubles and the codec handles 64-bit        *)
(* integers, so integers are modelled as arbitrary-precision naturals      *)
(* (sequences of decimal digits, least significant first) and every        *)
(* arithmetic step on a JS number is followed by the rounding a double     *)
(* performs (53-bit significand, ties to even).                            *)
(***************************************************************************)
EXTENDS Integers, Sequences, FiniteSets, TLC

VARIABLES packet, op, arg, ret, pre, wrote, inWindow, field, parser, row, calls

vars == <<packet, op, arg, ret, pre, wrote, inWindow, field, parser, row, calls>>

(***************************************************************************)
(* Arbitrary-precision naturals: <<d0, d1, ...>> is d0 + 10*d1 + ...,      *)
(* without trailing zeros; zero is <<>>.                                   *)
(***************************************************************************)
RECURSIVE NatNorm(_)
NatNorm(x) ==
  IF x = <<>> THEN <<>>
  ELSE IF x[Len(x)] = 0 THEN NatNorm(SubSeq(x, 1, Len(x) - 1))
  ELSE x

RECURSIVE NatOfInt(_)
NatOfInt(i) == IF i = 0 THEN <<>> ELSE <<i % 10>> \o NatOfInt(i \div 10)

RECURSIVE IntOfNat(_)
IntOfNat(x) == IF x = <<>> THEN 0 ELSE Head(x) + 10 * IntOfNat(Tail(x))

\* The arithmetic works on limbs of four digits, <<l1, l2, ...>> being
\* l1 + 10^4 * l2 + ..., so that its recursion is a quarter as deep.
Digit(x, i) == IF i <= Len(x) THEN x[i] ELSE 0

Limbs(x) ==
  [j \in 1..((Len(x) + 3) \div 4) |->
     Digit(x, 4 * j - 3) + 10 * Digit(x, 4 * j - 2)
       + 100 * Digit(x, 4 * j - 1) + 1000 * Digit(x, 4 * j)]

OfLimbs(l) ==
  NatNorm([i \in 1..(4 * Len(l)) |->
             (l[(i + 3) \div 4] \div <<1, 10, 100, 1000>>[((i - 1) % 4) + 1]) % 10])

Limb(l, i) == IF i <= Len(l) THEN l[i] ELSE 0

\* the value of an expression, bound once
Value(set) == CHOOSE v \in set : TRUE

RECURSIVE LimbAddC(_, _, _, _)
LimbAddC(x, y, i, c) ==
  IF i > Len(x) /\ i > Len(y) THEN <<c>>
  ELSE <<(Limb(x, i) + Limb(y, i) + c) % 10000>>
         \o LimbAddC(x, y, i + 1, (Limb(x, i) + Limb(y, i) + c) \div 10000)

NatAdd(x, y) ==
  Value({ OfLimbs(LimbAddC(lx, ly, 1, 0)) : lx \in {Limbs(x)}, ly \in {Limbs(y)} })

RECURSIVE LimbSubB(_, _, _, _)
LimbSubB(x, y, i, b) ==
  IF i > Len(x) THEN <<>>
  ELSE <<(x[i] - Limb(y, i) - b + 10000) % 10000>>
         \o LimbSubB(x, y, i + 1, IF x[i] - Limb(y, i) - b < 0 THEN 1 ELSE 0)

\* x - y for x >= y
NatSub(x, y) ==
  Value({ OfLimbs(LimbSubB(lx, ly, 1, 0)) : lx \in {Limbs(x)}, ly \in {Limbs(y)} })

RECURSIVE LimbMulC(_, _, _, _)
LimbMulC(x, k, i, c) ==
  IF i > Len(x) THEN <<c % 10000, c \div 10000>>
  ELSE <<(x[i] * k + c) % 10000>> \o LimbMulC(x, k, i + 1, (x[i] * k + c) \div 10000)

\* x * k for a machine-sized k
NatMulSmall(x, k) == Value({ OfLimbs(LimbMulC(lx, k, 1, 0)) : lx \in {Limbs(x)} })

\* the limbs from i up, modulo k
RECURSIVE LimbMod(_, _, _)
LimbMod(x, k, i) ==
  IF i > Len(x) THEN 0
  ELSE (x[i] + 100 * ((100 * LimbMod(x, k, i + 1)) % k)) % k

NatModSmall(x, k) == Value({ LimbMod(lx, k, 1) : lx \in {Limbs(x)} })

\* <<quotient limbs, remainder>> of the limbs from i up divided by k
RECURSIVE LimbDivMod(_, _, _)
LimbDivMod(x, k, i) ==
  IF i > Len(x) THEN <<(<<>>), 0>>
  ELSE Value({ <<(<<(hi[2] * 10000 + x[i]) \div k>>) \o hi[1],
                 (hi[2] * 10000 + x[i]) % k>> : hi \in {LimbDivMod(x, k, i + 1)} })

NatDivSmall(x, k) == Value({ OfLimbs(LimbDivMod(lx, k, 1)[1]) : lx \in {Limbs(x)} })

\* -1, 0, 1 as x is less than, equal to, greater than y
DigitsCmp(x, y) ==
  IF Len(x) < Len(y) THEN -1
  ELSE IF Len(x) > Len(y) THEN 1
  ELSE IF x = y THEN 0
  ELSE IF \E i \in 1..Len(x) :
            x[i] < y[i] /\ \A j \in (i + 1)..Len(x) : x[j] = y[j] THEN -1
  ELSE 1

NatCmp(x, y) == Value({ DigitsCmp(a, b) : a \in {x}, b \in {y} })

NatLess(x, y) == NatCmp(x, y) < 0
NatLeq(x, y) == NatCmp(x, y) <= 0

\* 2^53 = 9007199254740992, the first integer whose successor is not a double
TwoPow53 == <<2, 9, 9, 0, 4, 7, 4, 5, 2, 9, 9, 1, 7, 0, 0, 9>>

RECURSIVE IntPow2(_)
IntPow2(e) == IF e = 0 THEN 1 ELSE 2 * IntPow2(e - 1)

\* 2^e for e >= 53
NatPow2(e) == NatMulSmall(TwoPow53, IntPow2(e - 53))

\* 10^z
NatPow10(z) == [i \in 1..z |-> 0] \o <<1>>

\* x with its z lowest decimal digits cleared
NatTrunc10(x, z) ==
  NatNorm([i \in 1..Len(x) |-> IF i <= z THEN 0 ELSE x[i]])

\* The decimal digits of x as character codes, most significant first
NatChars(x) ==
  IF x = <<>> THEN <<48>> ELSE [i \in 1..Len(x) |-> 48 + x[Len(x) + 1 - i]]

\* The natural written by a sequence of digit characters
NatOfChars(s) == NatNorm([i \in 1..Len(s) |-> s[Len(s) + 1 - i] - 48])

\* Little-endian bytes to a natural, and back to exactly n bytes (mod 256^n)
RECURSIVE NatOfBytes(_)
NatOfBytes(b) ==
  IF b = <<>> THEN <<>>
  ELSE NatAdd(NatMulSmall(NatOfBytes(Tail(b)), 256), NatOfInt(Head(b)))

RECURSIVE BytesOfNat(_, _)
BytesOfNat(x, n) ==
  IF n = 0 THEN <<>>
  ELSE <<NatModSmall(x, 256)>> \o BytesOfNat(NatDivSmall(x, 256), n - 1)

(***************************************************************************)
(* JavaScript values.  A number is an integer-valued double: its sign and  *)
(* the exact magnitude.  A string or a buffer carries its character codes  *)
(* or bytes in d.                                                          *)
(***************************************************************************)
Num(x) == [t |-> "number", neg |-> FALSE, d |-> x]
SignedNum(isNeg, x) == [t |-> "number", neg |-> isNeg /\ x # <<>>, d |-> x]
NaN == [t |-> "NaN", neg |-> FALSE, d |-> <<>>]
Str(s) == [t |-> "string", neg |-> FALSE, d |-> s]
Buf(b) == [t |-> "buffer", neg |-> FALSE, d |-> b]
Null == [t |-> "null", neg |-> FALSE, d |-> <<>>]
Undefined == [t |-> "undefined", neg |-> FALSE, d |-> <<>>]
Throw(kind) == [t |-> kind, neg |-> FALSE, d |-> <<>>]
IsThrow(v) == v.t \in {"Error", "TypeError", "RangeError", "SyntaxError"}

(***************************************************************************)
(* IEEE double rounding of a natural: exact below 2^53, otherwise the      *)
(* nearest multiple of the unit in the last place, ties to the even        *)
(* significand.                                                            *)
(***************************************************************************)
\* the binary exponent of x, 2^53 <= x < 2^71
Exponent(x) ==
  CHOOSE e \in 53..70 : ~NatLess(x, NatPow2(e)) /\ NatLess(x, NatPow2(e + 1))

\* the unit in the last place of a double x >= 2^53
Ulp(x) == IntPow2(Exponent(x) - 52)

\* base, a multiple of m, or the next one: r is what x leaves above base
RoundAt(base, m, r) ==
  IF 2 * r > m \/ (2 * r = m /\ NatModSmall(base, 2 * m) # 0)
  THEN NatAdd(base, NatOfInt(m))
  ELSE base

\* x rounded to a multiple of m, ties to the even multiple
RoundBy(x, m) ==
  Value({ Value({ RoundAt(base, m, r) : base \in {NatSub(x, NatOfInt(r))} }) :
            r \in {NatModSmall(x, m)} })

RoundDouble(x) ==
  IF NatLess(x, TwoPow53) THEN x
  ELSE Value({ RoundBy(x, m) : m \in {Ulp(x)} })

\* a + b and a * k on doubles holding naturals
DblAdd(a, b) == RoundDouble(NatAdd(a, b))
DblMulSmall(a, k) == RoundDouble(NatMulSmall(a, k))

(***************************************************************************)
(* Number.prototype.toString for an integer-valued double below 1e21: the  *)
(* shortest decimal that reads back as the same double (the closest one    *)
(* when several are that short), padded with zeros.                        *)
(***************************************************************************)
RECURSIVE MaxZeros(_, _, _)
MaxZeros(lo, hi, z) ==
  LET c == NatTrunc10(hi, z + 1)
  IN  IF c # <<>> /\ NatLeq(lo, c) THEN MaxZeros(lo, hi, z + 1) ELSE z

\* of the two candidates a <= x <= b, the one in lo..hi closest to x (the even
\* one on a tie)
PickDecimal(x, lo, hi, z, a, b) ==
  IF NatLeq(lo, a) /\ NatLeq(b, hi)
  THEN Value({ IF NatLess(da, db) THEN a
               ELSE IF NatLess(db, da) THEN b
               ELSE IF a[z + 1] % 2 = 0 THEN a ELSE b :
                 da \in {NatSub(x, a)}, db \in {NatSub(b, x)} })
  ELSE IF NatLeq(lo, a) THEN a ELSE b

\* the decimal with the most trailing zeros among those that read back as x
ShortestIn(x, lo, hi) ==
  Value({ Value({ Value({ PickDecimal(x, lo, hi, z, a, b) :
                            b \in {NatAdd(a, NatPow10(z))} }) :
                    a \in {NatTrunc10(x, z)} }) :
            z \in {MaxZeros(lo, hi, 0)} })

\* lo..hi: the naturals that round to the double x, whose ulp is m
ShortestFor(x, e, m) ==
  Value({ ShortestIn(x,
                     NatSub(x, NatOfInt(IF x = NatPow2(e) THEN m \div 4 ELSE half)),
                     NatAdd(x, NatOfInt(half))) :
            half \in {IF NatModSmall(x, 2 * m) = 0 THEN m \div 2 ELSE m \div 2 - 1} })

NumberToString(x) ==
  IF NatLess(x, TwoPow53) THEN NatChars(x)
  ELSE NatChars(Value({ ShortestFor(x, e, IntPow2(e - 52)) : e \in {Exponent(x)} }))

\* Number.prototype.toFixed() of an integer-valued double below 1e21: its exact digits
NumberToFixed(v) == (IF v.neg THEN <<45>> ELSE <<>>) \o NatChars(v.d)

\* String(number)
NumToString(v) == (IF v.neg THEN <<45>> ELSE <<>>) \o NumberToString(v.d)

IsDigit(c) == c >= 48 /\ c <= 57

\* the longest prefix of s made of digits
RECURSIVE DigitPrefix(_)
DigitPrefix(s) ==
  IF s = <<>> \/ ~IsDigit(Head(s)) THEN <<>> ELSE <<Head(s)>> \o DigitPrefix(Tail(s))

\* parseInt(str, 10): optional sign, then the digits up to the first other character,
\* correctly rounded to a double; NaN without a digit
ParseInt10(s) ==
  LET isNeg == s # <<>> /\ s[1] = 45
      body  == IF s # <<>> /\ s[1] \in {43, 45} THEN Tail(s) ELSE s
      ds    == DigitPrefix(body)
  IN  IF ds = <<>> THEN NaN ELSE SignedNum(isNeg, RoundDouble(NatOfChars(ds)))

(***************************************************************************)
(* Text literals: the character codes of a TLA+ string.                    *)
(***************************************************************************)
\* The printable characters from "+" (43) to "z" (122) the model's literals use
AsciiTable == "+,-./0123456789:;<=>?@ABCDEFGHIJKLMNOPQRSTUVWXYZ[ ]^_ abcdefghijklmnopqrstuvwxyz"

CharCode(c) ==
  IF c = " " THEN 32
  ELSE 42 + CHOOSE i \in 1..Len(AsciiTable) : SubSeq(AsciiTable, i, i) = c

Chars(s) == [i \in 1..Len(s) |-> CharCode(SubSeq(s, i, i))]

\* the natural written in decimal by the TLA+ string s
Dec(s) == NatOfChars(Chars(s))

(***************************************************************************)
(* The long library's Long(low, high, unsigned).  low and high hold the    *)
(* 32 bits of the int32 fields as naturals below 2^32.                     *)
(***************************************************************************)
MkLong(low, high, unsigned) == [low |-> low, high |-> high, unsigned |-> unsigned]

LongBits(l) == NatAdd(NatMulSmall(NatMulSmall(l.high, 65536), 65536), l.low)

\* the sign and the magnitude of a Long from its 64 bits
BitsNeg(bits, unsigned) == ~unsigned /\ ~NatLess(bits, NatPow2(63))
BitsMag(bits, unsigned) ==
  IF BitsNeg(bits, unsigned) THEN NatSub(NatPow2(64), bits) ELSE bits

LongIsNeg(l) == BitsNeg(LongBits(l), l.unsigned)

LongMag(l) == BitsMag(LongBits(l), l.unsigned)

\* Long.prototype.toNumber: high * 2^32 + (low >>> 0), one rounding
LongToNumber(l) == SignedNum(LongIsNeg(l), RoundDouble(LongMag(l)))

\* Long.prototype.toString(): the exact decimal
LongToString(l) == Str((IF LongIsNeg(l) THEN <<45>> ELSE <<>>) \o NatChars(LongMag(l)))

\* the Long holding x modulo 2^64
LongOfNat(x, unsigned) ==
  LET b == BytesOfNat(x, 8)
  IN  MkLong(NatOfBytes(SubSeq(b, 1, 4)), NatOfBytes(SubSeq(b, 5, 8)), unsigned)

\* Long.fromNumber(value, true) for an integer-valued double
LongFromNumber(v) ==
  IF v.t # "number" \/ v.neg THEN MkLong(<<>>, <<>>, TRUE)
  ELSE IF ~NatLess(v.d, NatPow2(64)) THEN LongOfNat(NatSub(NatPow2(64), <<1>>), TRUE)
  ELSE LongOfNat(v.d, TRUE)

\* Long.fromString(str, true, 10) for a string of decimal digits
LongFromString(v) == LongOfNat(NatOfChars(v.d), TRUE)

\* A Long as a JS value: its eight bytes, low word first; neg tells a signed Long
LongObj(l) ==
  [t |-> "object", neg |-> ~l.unsigned, d |-> BytesOfNat(l.low, 4) \o BytesOfNat(l.high, 4)]
LongOfObj(v) == MkLong(NatOfBytes(SubSeq(v.d, 1, 4)), NatOfBytes(SubSeq(v.d, 5, 8)), ~v.neg)

\* ToNumber of the values the length-coded writers are given (a Long converts
\* through its toString)
ToNumber(v) ==
  CASE v.t = "number" -> v
    [] v.t = "null"   -> Num(<<>>)
    [] v.t = "string" -> IF v.d # <<>> /\ \A i \in 1..Len(v.d) : IsDigit(v.d[i])
                         THEN Num(RoundDouble(NatOfChars(v.d)))
                         ELSE IF v.d = <<>> THEN Num(<<>>) ELSE NaN
    [] v.t = "object" -> LongToNumber(LongOfObj(v))
    [] OTHER          -> NaN

\* a < k for a JS value a and a machine-sized constant k (false for NaN)
LessThanInt(v, k) ==
  LET n == ToNumber(v)
  IN  n.t = "number" /\ (n.neg \/ NatLess(n.d, NatOfInt(k)))

(***************************************************************************)
(* Packet: a cursor over a byte buffer.  JS offset i is index i + 1 of the *)
(* sequence.  A method is an operator from the packet (and its arguments)  *)
(* to [p |-> the packet afterwards, r |-> the value returned or thrown].   *)
(***************************************************************************)
MkPacket(buffer, start, end) ==
  [buffer |-> buffer, start |-> start, offset |-> start + 4, end |-> end]

Res(p, r) == [p |-> p, r |-> r]

\* buffer[i]: the byte, or -1 for undefined outside the buffer
At(b, i) == IF i >= 0 /\ i < Len(b) THEN b[i + 1] ELSE -1

ByteVal(x) == IF x < 0 THEN Undefined ELSE Num(NatOfInt(x))

\* undefined << k is 0
ShiftByte(x, k) == IF x < 0 THEN 0 ELSE x * IntPow2(k)

\* whether Buffer's readUIntNNLE / writeUIntNNLE accept n bytes at off
InBuffer(b, off, n) == off >= 0 /\ off + n <= Len(b)

Min(a, b) == IF a < b THEN a ELSE b
Max(a, b) == IF a > b THEN a ELSE b

\* buffer.slice(from, to) for from, to >= 0: clamped to the buffer
Slice(b, from, to) == SubSeq(b, Min(from, Len(b)) + 1, Min(to, Len(b)))

reset(p) == Res([p EXCEPT !.offset = p.start + 4], Undefined)

length(p) == p.end - p.start

\* this.buffer[this.offset] === 0xfe && this.length() < 13
isEOF(p) == At(p.buffer, p.offset) = 254 /\ length(p) < 13

skip(p, num) == Res([p EXCEPT !.offset = @ + num], Undefined)

readInt8(p) == Res([p EXCEPT !.offset = @ + 1], ByteVal(At(p.buffer, p.offset)))

readInt16(p) ==
  LET q == [p EXCEPT !.offset = @ + 2]
  IN  IF InBuffer(p.buffer, p.offset, 2)
      THEN Res(q, Num(NatOfBytes(SubSeq(p.buffer, p.offset + 1, p.offset + 2))))
      ELSE Res(q, Throw("RangeError"))

\* a mutant of readInt24: the high byte read as two
readInt24_m(p) ==
  Res([p EXCEPT !.offset = @ + 4], readInt16(p).r)

readInt24(p) ==
  LET lo == readInt16(p)
      hi == readInt8(lo.p)
  IN  IF IsThrow(lo.r) THEN lo
      ELSE Res(hi.p, Num(NatAdd(lo.r.d, NatOfInt(ShiftByte(At(p.buffer, p.offset + 2), 16)))))

readInt32(p) ==
  LET q == [p EXCEPT !.offset = @ + 4]
  IN  IF InBuffer(p.buffer, p.offset, 4)
      THEN Res(q, Num(NatOfBytes(SubSeq(p.buffer, p.offset + 1, p.offset + 4))))
      ELSE Res(q, Throw("RangeError"))

\* readInt8() + (readInt8() << 8) [+ (readInt8() << 16)] over n bytes at the cursor
ReadBytesLE(p, n) ==
  LET b0 == At(p.buffer, p.offset)
      b1 == At(p.buffer, p.offset + 1)
      b2 == IF n = 3 THEN At(p.buffer, p.offset + 2) ELSE 0
      q  == [p EXCEPT !.offset = @ + n]
  IN  IF b0 < 0 THEN Res(q, NaN)
      ELSE Res(q, Num(NatOfInt(b0 + ShiftByte(b1, 8) + ShiftByte(b2, 16))))

\* resNumber.toString() === resString ? resNumber : resString, unless bigNumberStrings
NumberOrString(resNumber, resString, bigNumberStrings) ==
  IF bigNumberStrings THEN resString
  ELSE IF NumToString(resNumber) = resString.d THEN resNumber ELSE resString

LongResult(res, bigNumberStrings) ==
  NumberOrString(LongToNumber(res), LongToString(res), bigNumberStrings)

Read64Result(word0, word1, bigNumberStrings, signed) ==
  IF word1 = <<>> THEN Num(word0)
  ELSE IF NatLess(word1, NatOfInt(2097152))
  THEN Num(DblAdd(RoundDouble(NatMulSmall(NatMulSmall(word1, 65536), 65536)), word0))
  ELSE LongResult(MkLong(word0, word1, ~signed), bigNumberStrings)

\* word1 = this.readInt32() after word0, then the value of the two words
Read64Words(w0, w1, bigNumberStrings, signed) ==
  IF IsThrow(w1.r) THEN w1
  ELSE Res(w1.p, Read64Result(w0.r.d, w1.r.d, bigNumberStrings, signed))

Read64(w0, bigNumberStrings, signed) ==
  IF IsThrow(w0.r) THEN w0
  ELSE Read64Words(w0, readInt32(w0.p), bigNumberStrings, signed)

\* a mutant of readLengthCodedNumberExt: no error at the end
readLengthCodedNumberExt_m(p, tag, bigNumberStrings, signed) ==
  CASE tag = 251 -> Res(p, Null)
    [] tag = 252 -> ReadBytesLE(p, 2)
    [] tag = 253 -> ReadBytesLE(p, 3)
    [] tag = 254 -> Read64(readInt32(p), bigNumberStrings, signed)
    [] OTHER -> Res(p, Null)

readLengthCodedNumberExt(p, tag, bigNumberStrings, signed) ==
  CASE tag = 251 -> Res(p, Null)
    [] tag = 252 -> ReadBytesLE(p, 2)
    [] tag = 253 -> ReadBytesLE(p, 3)
    [] tag = 254 -> Read64(readInt32(p), bigNumberStrings, signed)
    [] OTHER -> Res(p, Throw("Error"))

readLengthCodedNumber(p, bigNumberStrings, signed) ==
  LET byte1 == At(p.buffer, p.offset)
      q     == [p EXCEPT !.offset = @ + 1]
  IN  IF byte1 >= 0 /\ byte1 < 251 THEN Res(q, Num(NatOfInt(byte1)))
      ELSE readLengthCodedNumberExt(q, byte1, bigNumberStrings, signed)

(***************************************************************************)
(* Readers of variable-length values.  this.offset += len leaves a cursor  *)
(* that is not an integer when len is undefined or NaN (NaN) or a decimal  *)
(* string (a string): NotAnOffset stands for such a cursor.  A length of   *)
(* ten digits or more leaves the cursor beyond every buffer: FarOffset     *)
(* stands for such a cursor.                                               *)
(***************************************************************************)
NotAnOffset == -1

FarOffset == 1000000000

\* offset + len
Advance(offset, len) ==
  IF len.t # "number" THEN NotAnOffset
  ELSE IF Len(len.d) > 9 THEN FarOffset
  ELSE offset + IntOfNat(len.d)

\* this.offset += len; this.buffer.slice(this.offset - len, this.offset)
ReadSlice(p, to) ==
  Res([p EXCEPT !.offset = to],
      Buf(IF to = NotAnOffset THEN <<>> ELSE Slice(p.buffer, p.offset, to)))

readBuffer(p, len) ==
  IF len.t = "undefined"
  THEN ReadSlice(p, p.end)
  ELSE ReadSlice(p, Advance(p.offset, len))

\* StringParser.decode(buffer, encoding) for the single-byte encodings, and for
\* utf8 on bytes that stand alone
decode(b, encoding) ==
  Str([i \in 1..Len(b) |->
         IF encoding = "ascii" THEN b[i] % 128
         ELSE IF encoding = "latin1" \/ b[i] < 128 THEN b[i]
         ELSE 65533])

\* the rest of readLengthCodedString / readLengthCodedBuffer, len being
\* the packet and the value readLengthCodedNumber() left
LengthCodedSlice(len) ==
  IF IsThrow(len.r) \/ len.r.t = "null" THEN len
  ELSE readBuffer(len.p, len.r)

DecodeRes(res, encoding) ==
  IF res.r.t = "buffer" THEN Res(res.p, decode(res.r.d, encoding)) ELSE res

readLengthCodedString(p, encoding) ==
  DecodeRes(LengthCodedSlice(readLengthCodedNumber(p, FALSE, FALSE)), encoding)

readLengthCodedBuffer(p) ==
  LengthCodedSlice(readLengthCodedNumber(p, FALSE, FALSE))

\* while (this.buffer[end]) end = end + 1: the first offset from `from` on
\* that holds 0 or lies outside the buffer
RECURSIVE ScanEnd(_, _)
ScanEnd(b, from) == IF At(b, from) <= 0 THEN from ELSE ScanEnd(b, from + 1)

NullTerminated(p, end, encoding) ==
  Res([p EXCEPT !.offset = end + 1], decode(Slice(p.buffer, p.offset, end), encoding))

readNullTerminatedString(p, encoding) ==
  NullTerminated(p, ScanEnd(p.buffer, p.offset), encoding)

\* buffer.readUIntLE(offset, n) for n of 1, 2, 4
ReadUIntLE(b, offset, n) ==
  IF ~InBuffer(b, offset, n) THEN Throw("RangeError")
  ELSE Num(NatOfBytes(SubSeq(b, offset + 1, offset + n)))

\* buffer.readIntLE(offset, n): the two's complement of the same bytes
ReadIntLE(b, offset, n) ==
  IF ~InBuffer(b, offset, n) THEN Throw("RangeError")
  ELSE IF b[offset + n] < 128 THEN ReadUIntLE(b, offset, n)
  ELSE SignedNum(TRUE, NatSub(NatOfBytes([i \in 1..(n + 1) |-> IF i > n THEN 1 ELSE 0]),
                              NatOfBytes(SubSeq(b, offset + 1, offset + n))))

\* PacketParser.int8 ... uint32 (buffer, offset || 0)
int8(b, offset) == ReadIntLE(b, offset, 1)

uint8(b, offset) == ByteVal(At(b, offset))

int16(b, offset) == ReadIntLE(b, offset, 2)

uint16(b, offset) == ReadUIntLE(b, offset, 2)

int32(b, offset) == ReadIntLE(b, offset, 4)

uint32(b, offset) == ReadUIntLE(b, offset, 4)

\* y || m || d || H || M || S || ms ? new Date(y, m - 1, d, H, M, S, ms)
\* : INVALID_DATE.  A Date is the fields it was constructed from (a byte read
\* outside the buffer is undefined, -1 here, and makes the date invalid); the
\* invalid date has none.
DateOf(fields, micros) ==
  IF (micros = <<>> /\ \A i \in 1..6 : fields[i] = 0) \/ (\E i \in 1..6 : fields[i] < 0)
  THEN [t |-> "Date", neg |-> FALSE, d |-> <<>>]
  ELSE [t |-> "Date", neg |-> FALSE,
        d |-> fields \o <<IntOfNat(NatDivSmall(micros, 1000))>>]

\* PacketParser.dateTime(buffer, offset, length) for a length that is a number
dateTime(b, offset, len) ==
  IF len > 3 /\ ~InBuffer(b, offset, 2) THEN Throw("RangeError")
  ELSE IF len > 10 /\ ~InBuffer(b, offset + 7, 4) THEN Throw("RangeError")
  ELSE DateOf(<<IF len > 3 THEN IntOfNat(NatOfBytes(SubSeq(b, offset + 1, offset + 2))) ELSE 0,
                IF len > 3 THEN At(b, offset + 2) ELSE 0,
                IF len > 3 THEN At(b, offset + 3) ELSE 0,
                IF len > 6 THEN At(b, offset + 4) ELSE 0,
                IF len > 6 THEN At(b, offset + 5) ELSE 0,
                IF len > 6 THEN At(b, offset + 6) ELSE 0>>,
              IF len > 10 THEN NatOfBytes(SubSeq(b, offset + 8, offset + 11)) ELSE <<>>)

\* the rest of readDateTime, len being the packet and the byte readInt8() left
DateTimeOf(len) ==
  IF len.r.t = "undefined"
  THEN Res([len.p EXCEPT !.offset = NotAnOffset], DateOf(<<0, 0, 0, 0, 0, 0>>, <<>>))
  ELSE IF len.r.d = NatOfInt(251) THEN Res(len.p, Null)
  ELSE Res([len.p EXCEPT !.offset = @ + IntOfNat(len.r.d)],
           dateTime(len.p.buffer, len.p.offset, IntOfNat(len.r.d)))

\* leftPad(num, value): value.toString(), padded with zeros to num characters;
\* undefined has no toString
PadChars(num, s) ==
  IF Len(s) >= num THEN s
  ELSE [i \in 1..num |-> IF i <= num - Len(s) THEN 48 ELSE s[i - (num - Len(s))]]

leftPad(num, value) ==
  IF IsThrow(value) THEN value
  ELSE IF value.t = "undefined" THEN Throw("TypeError")
  ELSE IF value.t = "string" THEN Str(PadChars(num, value.d))
  ELSE Str(PadChars(num, NumToString(value)))

\* a template literal or += of parts evaluated from left to right: the
\* first part that throws ends it
RECURSIVE Joined(_)
Joined(parts) ==
  IF parts = <<>> THEN Str(<<>>)
  ELSE IF IsThrow(Head(parts)) THEN Head(parts)
  ELSE Value({ IF IsThrow(rest) THEN rest ELSE Str(Head(parts).d \o rest.d) :
                 rest \in {Joined(Tail(parts))} })

\* microseconds.substring(0, decimals) when decimals is not 0 or undefined
\* and the padded string is longer
Fraction(microseconds, decimals) ==
  IF IsThrow(microseconds) THEN microseconds
  ELSE IF decimals # 0 /\ Len(microseconds.d) > decimals
  THEN Str(SubSeq(microseconds.d, 1, decimals))
  ELSE microseconds

\* PacketParser.dateTimeString once offset and length have their defaults;
\* decimals is 0 when left out
DateTimeStringOf(b, offset, len, decimals) ==
  IF len <= 3 THEN Undefined
  ELSE Joined(
    << leftPad(4, uint16(b, offset)), Str(<<45>>),
       leftPad(2, uint8(b, 2 + offset)), Str(<<45>>),
       leftPad(2, uint8(b, 4 + offset)) >>
    \o (IF len <= 6 THEN <<>>
        ELSE << Str(<<32>>), leftPad(2, uint8(b, 4 + offset)), Str(<<58>>),
                leftPad(2, uint8(b, 5 + offset)), Str(<<58>>),
                leftPad(2, uint8(b, 6 + offset)) >>)
    \o (IF len <= 10 THEN <<>>
        ELSE << Str(<<46>>), Fraction(leftPad(6, uint32(b, 7 + offset)), decimals) >>))

\* the defaults of offset and length of the PacketParser decoders: an
\* argument left out is undefined
Window(b, offset, len) == [buffer |-> b, offset |-> offset, length |-> len]

DefaultWindow(b, offset, len) ==
  IF offset.t = "undefined" THEN Window(b, 0, Len(b))
  ELSE IF len.t = "undefined"
  THEN Window(b, IntOfNat(offset.d), Len(b) - IntOfNat(offset.d))
  ELSE Window(b, IntOfNat(offset.d), IntOfNat(len.d))

\* PacketParser.dateTimeString(buffer, offset, length, decimals)
dateTimeString(b, offset, len, decimals) ==
  Value({ DateTimeStringOf(w.buffer, w.offset, w.length, decimals) :
            w \in {DefaultWindow(b, offset, len)} })

\* the defaultCast the binary readCodeFor generates for a date column with
\* decimals 1 to 6 under dateStrings
DateStringCode ==
  << "function(_) { return PacketParser.dateTimeString(_, 0, 1) }",
     "function(_) { return PacketParser.dateTimeString(_, 0, 2) }",
     "function(_) { return PacketParser.dateTimeString(_, 0, 3) }",
     "function(_) { return PacketParser.dateTimeString(_, 0, 4) }",
     "function(_) { return PacketParser.dateTimeString(_, 0, 5) }",
     "function(_) { return PacketParser.dateTimeString(_, 0, 6) }" >>

\* that function called on a buffer: its third argument is the length
DateStringCall(code, b) ==
  dateTimeString(b, Num(<<>>),
                 Num(NatOfInt(CHOOSE k \in 1..6 : DateStringCode[k] = code)), 0)

readDateTime(p) == DateTimeOf(readInt8(p))

(***************************************************************************)
(* Writers.  Buffer's writeUIntNN / writeInt32LE throw a RangeError when   *)
(* the bytes do not fit the buffer, leaving it and the offset as they are. *)
(***************************************************************************)
WriteAt(b, off, bytes) ==
  [i \in 1..Len(b) |-> IF i > off /\ i <= off + Len(bytes) THEN bytes[i - off] ELSE b[i]]

\* write the bytes at the cursor and advance it
WriteBytes(p, bytes) ==
  IF InBuffer(p.buffer, p.offset, Len(bytes))
  THEN Res([p EXCEPT !.buffer = WriteAt(p.buffer, p.offset, bytes),
                     !.offset = @ + Len(bytes)], Undefined)
  ELSE Res(p, Throw("RangeError"))

writeInt8(p, n) == WriteBytes(p, BytesOfNat(n, 1))
writeInt16(p, n) == WriteBytes(p, BytesOfNat(n, 2))

writeInt24(p, n) ==
  LET t == writeInt8(p, NatOfInt(NatModSmall(n, 256)))
  IN  IF IsThrow(t.r) THEN t ELSE writeInt16(t.p, NatDivSmall(n, 256))

\* a mutant of longValueOf: the string threshold off by one
longValueOf_m(n) ==
  IF n.t = "number" /\ ~LessThanInt(n, 16777216) THEN LongObj(LongFromNumber(n))
  ELSE IF n.t = "string" /\ Len(n.d) >= 9 THEN LongObj(LongFromString(n))
  ELSE IF n.t = "object" THEN n
  ELSE Null

\* the longValue of writeLengthCodedNumber: a Long for a number above 0xffffff,
\* a string of 8 characters or more, or an object; null otherwise
longValueOf(n) ==
  IF n.t = "number" /\ ~LessThanInt(n, 16777216) THEN LongObj(LongFromNumber(n))
  ELSE IF n.t = "string" /\ Len(n.d) >= 8 THEN LongObj(LongFromString(n))
  ELSE IF n.t = "object" THEN n
  ELSE Null

\* writeInt8(tag), then the write `next` of the value v on the packet it leaves
WriteTag(t, v, wide) ==
  IF IsThrow(t.r) THEN t
  ELSE IF wide THEN writeInt24(t.p, v) ELSE writeInt16(t.p, v)

\* the tail of writeLengthCodedNumber, v being the number n converts to
WriteNarrow(p, v) ==
  IF LessThanInt(v, 251) THEN writeInt8(p, v.d)
  ELSE IF LessThanInt(v, 65536) THEN WriteTag(writeInt8(p, NatOfInt(252)), v.d, FALSE)
  ELSE IF LessThanInt(v, 16777216) THEN WriteTag(writeInt8(p, NatOfInt(253)), v.d, TRUE)
  ELSE Res(p, Throw("Error"))

\* the second writeInt32LE, at offset + 4, and the offset += 8 after it
WriteHigh(t, lo, hi) ==
  IF IsThrow(hi.r) THEN Res([lo.p EXCEPT !.offset = t.p.offset], hi.r)
  ELSE Res(hi.p, Num(NatOfInt(hi.p.offset)))

\* the first writeInt32LE, at offset
WriteLow(t, lo, longValue) ==
  IF IsThrow(lo.r) THEN lo
  ELSE WriteHigh(t, lo, WriteBytes(lo.p, SubSeq(longValue.d, 5, 8)))

\* writeInt8(0xfe) and the eight bytes of longValue
WriteUInt64(t, longValue) ==
  IF IsThrow(t.r) THEN t
  ELSE WriteLow(t, WriteBytes(t.p, SubSeq(longValue.d, 1, 4)), longValue)

\* longValue.high === 0 && (longValue.low & 0xff000000) === 0
FitsUInt24(longValue) ==
  \A i \in 4..8 : longValue.d[i] = 0

WriteLong(p, n, longValue) ==
  IF longValue.t = "null" THEN WriteNarrow(p, ToNumber(n))
  ELSE IF FitsUInt24(longValue) THEN WriteNarrow(p, Num(NatOfBytes(SubSeq(longValue.d, 1, 4))))
  ELSE WriteUInt64(writeInt8(p, NatOfInt(254)), longValue)

writeLengthCodedNumber(p, n) ==
  IF n.t = "null" THEN writeInt8(p, NatOfInt(251))
  ELSE WriteLong(p, n, longValueOf(n))

lengthCodedNumberLength(n) ==
  IF LessThanInt(n, 251) THEN 1
  ELSE IF LessThanInt(n, 65536) THEN 3
  ELSE IF LessThanInt(n, 16777216) THEN 5
  ELSE 9

(***************************************************************************)
(* PacketParser: the 64-bit integer decoders.                              *)
(***************************************************************************)
\* word0 = buffer.readInt32LE(offset), word1 = buffer.readInt32LE(4 + offset)
Words64(b, offset, unsigned) ==
  IF InBuffer(b, offset, 8)
  THEN LongObj(MkLong(NatOfBytes(SubSeq(b, offset + 1, offset + 4)),
                      NatOfBytes(SubSeq(b, offset + 5, offset + 8)), unsigned))
  ELSE Throw("RangeError")

uint64Long(b, offset) == Words64(b, offset, TRUE)
int64Long(b, offset) == Words64(b, offset, FALSE)

\* v.toString() for a Long, a string or a number; a throw passes through
CallToString(v) ==
  CASE v.t = "object" -> LongToString(LongOfObj(v))
    [] v.t = "number" -> Str(NumToString(v))
    [] OTHER          -> v

\* v.toNumber(): only a Long has the method
CallToNumber(v) ==
  CASE v.t = "object" -> LongToNumber(LongOfObj(v))
    [] IsThrow(v)     -> v
    [] OTHER          -> Throw("TypeError")

\* resNumber.toString() === resString ? resNumber : resString
IfPossible(resNumber, resString) ==
  IF IsThrow(resNumber) THEN resNumber
  ELSE NumberOrString(resNumber, resString, FALSE)

\* const long = ...; long.toNumber(); long.toString()
NumberIfPossible(long) == IfPossible(CallToNumber(long), CallToString(long))

uint64NumberIfPossible(b, offset) == NumberIfPossible(CallToString(uint64Long(b, offset)))
int64NumberIfPossible(b, offset) == NumberIfPossible(CallToString(int64Long(b, offset)))

uint64Number(b, offset) == CallToNumber(uint64Long(b, offset))

\* word0 + 0x100000000 * word1 for the words readInt32LE gave, word1 not
\* negative: low and high are the same 32 bits read without sign
PositiveInt64(low, high) ==
  IF ~NatLess(low, Dec("2147483648"))
  THEN IF high = <<>> THEN SignedNum(TRUE, NatSub(Dec("4294967296"), low))
       ELSE Num(RoundDouble(NatSub(NatAdd(NatMulSmall(NatMulSmall(high, 65536), 65536),
                                          low),
                                   Dec("4294967296"))))
  ELSE Num(RoundDouble(NatAdd(NatMulSmall(NatMulSmall(high, 65536), 65536), low)))

\* int64Number after the two words were read
Int64NumberOf(long) ==
  IF IsThrow(long) THEN long
  ELSE IF NatLess(LongOfObj(long).high, Dec("2147483648"))
  THEN PositiveInt64(LongOfObj(long).low, LongOfObj(long).high)
  ELSE LongToNumber(LongOfObj(long))

int64Number(b, offset) ==
  Value({ Int64NumberOf(long) : long \in {int64Long(b, offset)} })

uint64String(b, offset) == CallToString(uint64Long(b, offset))

int64String(b, offset) == CallToString(int64Long(b, offset))

\* JSON.parse(text) for the texts of the model: a text that is empty or
\* starts with a character no JSON value starts with is a SyntaxError
JsonParse(text) ==
  IF text = <<>> \/ text[1] \notin ({34, 45, 91, 102, 110, 116, 123} \cup 48..57)
  THEN Throw("SyntaxError")
  ELSE CASE text = Chars("1") -> Num(Dec("1"))
         [] text = Chars("null") -> Null
         [] text = Chars("42") -> Num(Dec("42"))

readInt64(p) ==
  Res([p EXCEPT !.offset = @ + 8], uint64NumberIfPossible(p.buffer, p.offset))

readSInt64(p) ==
  Res([p EXCEPT !.offset = @ + 8], int64NumberIfPossible(p.buffer, p.offset))

(***************************************************************************)
(* PacketParser: decimal text to integer.  The texts of the model hold     *)
(* digits only after their sign.                                           *)
(***************************************************************************)
\* buffer.toString('ascii', from, to)
AsciiText(b, from, to) ==
  Str([i \in 1..Len(Slice(b, from, to)) |-> Slice(b, from, to)[i] % 128])

\* the absolute value of a machine integer
Abs(i) == IF i < 0 THEN -i ELSE i

\* result += delta, for a number and a small integer
PlusSmall(result, delta) ==
  IF result.neg = (delta < 0) \/ result.d = <<>>
  THEN SignedNum(delta < 0, RoundDouble(NatAdd(result.d, NatOfInt(Abs(delta)))))
  ELSE IF NatLeq(NatOfInt(Abs(delta)), result.d)
  THEN SignedNum(result.neg, RoundDouble(NatSub(result.d, NatOfInt(Abs(delta)))))
  ELSE SignedNum(delta < 0, NatOfInt(Abs(delta) - IntOfNat(result.d)))

\* result *= 10; result += buffer[position] - 0x30, NaN from the first
\* position that holds no byte
Times10Plus(result, byte) ==
  IF result.t # "number" \/ byte < 0 THEN NaN
  ELSE PlusSmall(SignedNum(result.neg, DblMulSmall(result.d, 10)), byte - 48)

\* while (position < end) { ...; position++ }: the steps from position up to
\* end, taken as those before the middle and then those from it
RECURSIVE Accumulate(_, _, _, _)
Accumulate(b, position, end, result) ==
  IF position >= end THEN result
  ELSE IF position + 1 = end THEN Times10Plus(result, At(b, position))
  ELSE Value({ Accumulate(b, (position + end) \div 2, end, half) :
                 half \in {Accumulate(b, position, (position + end) \div 2, result)} })

\* isNegative ? -result : result
Signed(isNegative, result) ==
  IF result.t = "number" /\ isNegative THEN SignedNum(~result.neg, result.d)
  ELSE result

\* the position after a '-' at offset, after a '+' at position
SkipMinus(b, offset) == IF At(b, offset) = 45 THEN offset + 1 ELSE offset
SkipPlus(b, position) == IF At(b, position) = 43 THEN position + 1 ELSE position

\* result.toFixed() === str ? result : str
FixedOrText(result, str) ==
  IF result.t = "number" /\ NumberToFixed(result) = str.d THEN result ELSE str

\* intAscii from the first digit on; numDigits is length - (position - offset)
IntAsciiDigits(b, offset, len, position) ==
  IF len - (position - offset) > 16 THEN AsciiText(b, offset, len)
  ELSE IF len - (position - offset) = 16 /\ At(b, position) = 57
  THEN FixedOrText(ParseInt10(AsciiText(b, offset, len).d), AsciiText(b, offset, len))
  ELSE Signed(At(b, offset) = 45, Accumulate(b, position, offset + len, Num(<<>>)))

intAscii(b, offset, len) ==
  IF len = 0 THEN NaN
  ELSE IntAsciiDigits(b, offset, len, SkipPlus(b, SkipMinus(b, offset)))

\* a mutant of intAsciiSmall: the sign looked for at the head of the buffer
intAsciiSmall_m(b, offset, len) ==
  IF len = 0 THEN NaN
  ELSE Signed(At(b, 0) = 45,
              Accumulate(b, SkipPlus(b, SkipMinus(b, offset)), offset + len, Num(<<>>)))

intAsciiSmall(b, offset, len) ==
  IF len = 0 THEN NaN
  ELSE Signed(At(b, offset) = 45,
              Accumulate(b, SkipPlus(b, SkipMinus(b, offset)), offset + len, Num(<<>>)))

\* new Date(y, m, d, H, M, S, ms) for numbers: a Date is written with the
\* month counted from 1, as dateTime reads it; an argument that is not a
\* number makes the invalid date, and ms loses its fraction
NewDate(args, microseconds) ==
  IF microseconds.t # "number" \/ \E i \in 1..6 : args[i].t # "number" \/ args[i].neg
  THEN [t |-> "Date", neg |-> FALSE, d |-> <<>>]
  ELSE [t |-> "Date", neg |-> FALSE,
        d |-> << IntOfNat(args[1].d), IntOfNat(args[2].d) + 1, IntOfNat(args[3].d),
                 IntOfNat(args[4].d), IntOfNat(args[5].d), IntOfNat(args[6].d),
                 IntOfNat(NatDivSmall(microseconds.d, 1000)) >>]

\* PacketParser.dateAscii(buffer, offset, length) for a length that is a
\* number; leftPad(6, microseconds) / 1000 is microseconds / 1000
dateAscii(b, offset, len) ==
  NewDate(<< IF len > 9 THEN intAsciiSmall(b, offset, 4) ELSE Num(<<>>),
             IF len > 9 THEN intAsciiSmall(b, 5 + offset, 2) ELSE Num(<<>>),
             IF len > 9 THEN intAsciiSmall(b, 8 + offset, 2) ELSE Num(<<>>),
             IF len > 18 THEN intAsciiSmall(b, 11 + offset, 2) ELSE Num(<<>>),
             IF len > 18 THEN intAsciiSmall(b, 14 + offset, 2) ELSE Num(<<>>),
             IF len > 18 THEN intAsciiSmall(b, 17 + offset, 2) ELSE Num(<<>>) >>,
          IF len > 20 THEN intAsciiSmall(b, 20 + offset, len - 20) ELSE Num(<<>>))

\* PacketParser.JSON(buffer, offset, length): JSON.parse of
\* buffer.slice(offset, length)
PacketParserJSON(b, offset, len) == JsonParse(decode(Slice(b, offset, len), "utf8").d)

\* the 64-bit decoders and JSON.parse as defaultCast
WideCast(defaultCast, b, offset) ==
  CASE defaultCast = "uint64Number"  -> uint64Number(b, offset)
    [] defaultCast = "int64Number"   -> int64Number(b, offset)
    [] defaultCast = "uint64String"  -> uint64String(b, offset)
    [] defaultCast = "int64String"   -> int64String(b, offset)
    [] defaultCast = "uint64NumberIfPossible" -> uint64NumberIfPossible(b, offset)
    [] defaultCast = "int64NumberIfPossible"  -> int64NumberIfPossible(b, offset)
    [] defaultCast = "JSON.parse"    -> JsonParse(decode(b, "utf8").d)

\* defaultCast(buffer, offset, len) for the decoders the row parsers pass
ApplyCast(defaultCast, b, offset, len) ==
  CASE defaultCast = "intAscii"      -> intAscii(b, offset, len)
    [] defaultCast = "intAsciiSmall" -> intAsciiSmall(b, offset, len)
    [] defaultCast = "alwaysNull"    -> Null
    [] defaultCast = "int8"          -> int8(b, offset)
    [] defaultCast = "uint8"         -> uint8(b, offset)
    [] defaultCast = "int16"         -> int16(b, offset)
    [] defaultCast = "uint16"        -> uint16(b, offset)
    [] defaultCast = "int32"         -> int32(b, offset)
    [] defaultCast = "uint32"        -> uint32(b, offset)
    [] defaultCast = "dateTime"      -> dateTime(b, offset, len)
    [] defaultCast = "dateTimeString" -> DateTimeStringOf(b, offset, len, 0)
    [] defaultCast = "dateAscii"     -> dateAscii(b, offset, len)
    [] defaultCast = "PacketParser.JSON" -> PacketParserJSON(b, offset, len)
    [] defaultCast \in { DateStringCode[k] : k \in 1..6 } -> DateStringCall(defaultCast, b)
    [] OTHER                         -> WideCast(defaultCast, b, offset)

\* encoding === 'binary' || encoding === null || encoding === undefined
IsBinary(encoding) == encoding \in {"binary", "null", "undefined"}

\* textField after packet.readLengthCodedNumber(), read being the packet and
\* the length it left
TextFieldOf(encoding, defaultCast, read) ==
  IF IsThrow(read.r) \/ read.r.t = "null" THEN read
  ELSE IF defaultCast # "null"
  THEN Res([read.p EXCEPT !.offset = Advance(@, read.r)],
           ApplyCast(defaultCast, read.p.buffer, read.p.offset, IntOfNat(read.r.d)))
  ELSE IF IsBinary(encoding) THEN readBuffer(read.p, read.r)
  ELSE DecodeRes(readBuffer(read.p, read.r), encoding)

textField(encoding, defaultCast, p) ==
  TextFieldOf(encoding, defaultCast, readLengthCodedNumber(p, FALSE, FALSE))

(***************************************************************************)
(* CastField: the object handed to a typeCast callback.  A function is     *)
(* modelled by its name, a closure by its name and the values it captured. *)
(***************************************************************************)
\* typeof defaultCast === 'function'
IsFunction(defaultCast) == defaultCast \notin {"null", "undefined", "true", "false"}

\* defaultCast(fieldBuffer): offset and length default to the whole buffer
CastWhole(defaultCast, b) == ApplyCast(defaultCast, b, 0, Len(b))

\* a defaultRead function and what it closes over
Closure(fn, defaultCast, fieldBuffer, encoding) ==
  [fn |-> fn, defaultCast |-> defaultCast, fieldBuffer |-> fieldBuffer,
   encoding |-> encoding]

\* the fields the constructor sets
CastFieldOf(isBinary, column, defaultRead, fieldBuffer, encoding) ==
  [isBinary |-> isBinary, column |-> column, defaultRead |-> defaultRead,
   fieldBuffer |-> fieldBuffer, forceEncoding |-> encoding]

\* a mutant of the constructor: the encoding looked at before defaultCast
CastField_m(isBinary, column, encoding, defaultCast, fieldBuffer) ==
  IF fieldBuffer.t \in {"undefined", "null"}
  THEN CastFieldOf(isBinary, column, Closure("alwaysNull", "null", Null, "null"),
                   Buf(<<>>), "null")
  ELSE IF IsBinary(encoding)
  THEN CastFieldOf(isBinary, column,
                   Closure("buffer", "null", fieldBuffer, "null"), fieldBuffer, encoding)
  ELSE IF IsFunction(defaultCast)
  THEN CastFieldOf(isBinary, column,
                   Closure("cast", defaultCast, fieldBuffer, "null"), fieldBuffer, encoding)
  ELSE CastFieldOf(isBinary, column,
                   Closure("decode", "null", fieldBuffer, encoding), fieldBuffer, encoding)

\* new CastField(isBinary, column, encoding, defaultCast, fieldBuffer)
CastField(isBinary, column, encoding, defaultCast, fieldBuffer) ==
  IF fieldBuffer.t \in {"undefined", "null"}
  THEN CastFieldOf(isBinary, column, Closure("alwaysNull", "null", Null, "null"),
                   Buf(<<>>), "null")
  ELSE IF IsFunction(defaultCast)
  THEN CastFieldOf(isBinary, column,
                   Closure("cast", defaultCast, fieldBuffer, "null"), fieldBuffer, encoding)
  ELSE IF IsBinary(encoding)
  THEN CastFieldOf(isBinary, column,
                   Closure("buffer", "null", fieldBuffer, "null"), fieldBuffer, encoding)
  ELSE CastFieldOf(isBinary, column,
                   Closure("decode", "null", fieldBuffer, encoding), fieldBuffer, encoding)

\* defaultRead(): the body of the function the constructor chose
CallDefaultRead(defaultRead) ==
  CASE defaultRead.fn = "alwaysNull" -> Null
    [] defaultRead.fn = "cast" ->
         CastWhole(defaultRead.defaultCast, defaultRead.fieldBuffer.d)
    [] defaultRead.fn = "buffer" -> defaultRead.fieldBuffer
    [] defaultRead.fn = "decode" ->
         decode(defaultRead.fieldBuffer.d, defaultRead.encoding)

\* what a callback did: the value it returned and the values its calls of
\* next() returned, in order
Cast(r, reads) == [r |-> r, reads |-> reads]

\* typeCast(field, next) for the callbacks of the model: one that returns
\* next(), one that calls next() and returns a second next(), one that returns
\* field.buffer(), one that returns a value of its own
CallTypeCast(typeCast, this, next) ==
  CASE typeCast = "next" ->
         Value({ Cast(read, <<read>>) : read \in {CallDefaultRead(next)} })
    [] typeCast = "nextTwice" ->
         Value({ Cast(second, <<first, second>>) :
                   first \in {CallDefaultRead(next)},
                   second \in {CallDefaultRead(next)} })
    [] typeCast = "buffer" -> Cast(this.fieldBuffer, <<>>)
    [] typeCast = "own" -> Cast(Str(<<111, 119, 110>>), <<>>)

\* run(typeCast)
run(this, typeCast) == CallTypeCast(typeCast, this, this.defaultRead)

(***************************************************************************)
(* The binary-protocol row parser.  The code compile() generates is        *)
(* modelled by a record of what it generates for each column; a callback   *)
(* option holds "undefined", "true", "false" or the name of a function.    *)
(***************************************************************************)
\* 'packet.readBuffer(n)', 'packet.readLengthCodedBuffer()' or 'null'
BufferCode(fn, n) == [fn |-> fn, n |-> n]

ReadCode(buffer, encoding, defaultCast) ==
  [buffer |-> buffer, encoding |-> encoding, defaultCast |-> defaultCast]

\* the encoding expression of a column: a string literal, or
\* fields[fieldNum].encoding
Literal(encoding) == [literal |-> encoding, fieldNum |-> -1]

FieldEncoding(fieldNum) == [literal |-> "", fieldNum |-> fieldNum]

\* readCodeFor(field, fieldNum, options, config) for the column types of the
\* model; field.unsigned is field.flags & FieldFlags.UNSIGNED
readCodeFor(f, fieldNum, options, config) ==
  CASE f.columnType = "TINY" ->
         ReadCode(BufferCode("readBuffer", 1), Literal("binary"),
                  IF f.unsigned THEN "uint8" ELSE "int8")
    [] f.columnType = "SHORT" ->
         ReadCode(BufferCode("readBuffer", 2), Literal("binary"),
                  IF f.unsigned THEN "uint16" ELSE "int16")
    [] f.columnType \in {"LONG", "INT24"} ->
         ReadCode(BufferCode("readBuffer", 4), Literal("binary"),
                  IF f.unsigned THEN "uint32" ELSE "int32")
    [] f.columnType = "YEAR" ->
         ReadCode(BufferCode("readBuffer", 2), Literal("binary"), "uint16")
    [] f.columnType = "NULL" ->
         ReadCode(BufferCode("null", 0), Literal("binary"), "alwaysNull")
    [] f.columnType \in {"DATE", "DATETIME", "TIMESTAMP", "NEWDATE"} ->
         ReadCode(BufferCode("readLengthCodedBuffer", 0), Literal("binary"),
                  IF ~config.dateStrings THEN "dateTime"
                  ELSE IF f.decimals = 0 THEN "dateTimeString"
                  ELSE DateStringCode[f.decimals])
    [] f.columnType = "JSON" ->
         ReadCode(BufferCode("readLengthCodedBuffer", 0), Literal("utf8"), "JSON.parse")
    [] f.columnType = "LONGLONG" ->
         ReadCode(BufferCode("readBuffer", 8), Literal("binary"),
                  IF ~(options.supportBigNumbers \/ config.supportBigNumbers)
                  THEN IF f.unsigned THEN "uint64Number" ELSE "int64Number"
                  ELSE IF options.bigNumberStrings \/ config.bigNumberStrings
                  THEN IF f.unsigned THEN "uint64String" ELSE "int64String"
                  ELSE IF f.unsigned THEN "uint64NumberIfPossible"
                       ELSE "int64NumberIfPossible")
    [] OTHER ->
         ReadCode(BufferCode("readLengthCodedBuffer", 0), FieldEncoding(fieldNum), "null")

\* options.binaryCast after compile took config's for an undefined one
BinaryCastOption(options, config) ==
  IF options.binaryCast = "undefined" /\ config.binaryCast # "undefined"
  THEN config.binaryCast ELSE options.binaryCast

\* options.typeCast after compile took config's function for a non-function
TypeCastOption(options, config) ==
  IF ~IsFunction(options.typeCast) /\ IsFunction(config.typeCast)
  THEN config.typeCast ELSE options.typeCast

\* a mutant of the cast selection: typeCast taken whether or not binaryCast
\* is true
CastOf_m(binaryCast, typeCast) ==
  IF IsFunction(binaryCast) THEN binaryCast
  ELSE IF IsFunction(typeCast) THEN typeCast
  ELSE "null"

\* const cast = ...
CastOf(binaryCast, typeCast) ==
  IF IsFunction(binaryCast) THEN binaryCast
  ELSE IF binaryCast = "true" /\ IsFunction(typeCast) THEN typeCast
  ELSE "null"

\* a mutant of the step: the bit wraps into the next byte one place early
NextNullBit_m(isNull) ==
  IF isNull.bit * 2 = 128 THEN [bit |-> 1, byte |-> isNull.byte + 1]
  ELSE [bit |-> isNull.bit * 2, byte |-> isNull.byte]

\* currentFieldNullBit *= 2; if (currentFieldNullBit === 0x100) { ... }
NextNullBit(isNull) ==
  IF isNull.bit * 2 = 256 THEN [bit |-> 1, byte |-> isNull.byte + 1]
  ELSE [bit |-> isNull.bit * 2, byte |-> isNull.byte]

\* currentFieldNullBit and nullByteIndex when the loop reaches field i
RECURSIVE NullBitOf(_)
NullBitOf(i) ==
  IF i = 0 THEN [bit |-> 4, byte |-> 0]
  ELSE Value({ NextNullBit(isNull) : isNull \in {NullBitOf(i - 1)} })

\* what compile leaves in options
CompiledOptions(options, config) ==
  [options EXCEPT !.binaryCast = BinaryCastOption(options, config),
                  !.typeCast = TypeCastOption(options, config)]

\* a mutant of the bitmap length: rounded up
NullBitmapLength_m(fields) == (Len(fields) + 7 + 2 + 7) \div 8

\* const nullBitmapLength = Math.floor((fields.length + 7 + 2) / 8)
NullBitmapLength(fields) == (Len(fields) + 7 + 2) \div 8

\* compile(fields, options, config): the parser it returns
compile(fields, options, config) ==
  [cast |-> CastOf(BinaryCastOption(options, config), TypeCastOption(options, config)),
   nullBitmapLength |-> NullBitmapLength(fields),
   cells |-> [i \in 1..Len(fields) |->
                [code |-> readCodeFor(fields[i], i - 1, options, config),
                 isNull |-> NullBitOf(i - 1)]]]

\* the state of a row being parsed: the packet, the bitmap bytes read, the
\* cells decoded, the callbacks called, the error thrown if any
RowState(p, bitmap, cells, called, thrown) ==
  [p |-> p, bitmap |-> bitmap, cells |-> cells, called |-> called, thrown |-> thrown]

\* packet.readInt8() for the status byte and for each byte of the null bitmap
RECURSIVE ReadBitmap(_, _, _)
ReadBitmap(p, n, bitmap) ==
  IF n = 0 THEN RowState(p, bitmap, <<>>, <<>>, Undefined)
  ELSE ReadBitmap(readInt8(p).p, n - 1, Append(bitmap, At(p.buffer, p.offset)))

\* nullBitmaskByteK & bit
IsNullCell(bitmap, isNull) ==
  /\ bitmap[isNull.byte + 1] >= 0
  /\ (bitmap[isNull.byte + 1] \div isNull.bit) % 2 = 1

\* the buffer expression of a cell, evaluated on the packet
ReadCell(buffer, p) ==
  CASE buffer.fn = "readBuffer" -> readBuffer(p, Num(NatOfInt(buffer.n)))
    [] buffer.fn = "readLengthCodedBuffer" -> readLengthCodedBuffer(p)
    [] buffer.fn = "null" -> Res(p, Null)

\* the encoding expression of a column, evaluated when the row is parsed
EvalEncoding(encoding, fields) ==
  IF encoding.fieldNum < 0 THEN encoding.literal
  ELSE fields[encoding.fieldNum + 1].encoding

\* defaultCast(buffer), buffer, or PacketParser.decode(buffer, encoding), on
\* what the buffer expression gave; which of the three was decided on the
\* text of the encoding expression
DefaultCell(code, fields, res) ==
  IF IsThrow(res.r) THEN res
  ELSE IF code.defaultCast = "alwaysNull" THEN Res(res.p, Null)
  ELSE IF code.defaultCast # "null"
  THEN Res(res.p, IF res.r.t = "buffer" THEN CastWhole(code.defaultCast, res.r.d)
                  ELSE Throw("TypeError"))
  ELSE IF code.encoding.literal = "binary" THEN res
  ELSE Res(res.p, IF res.r.t = "buffer"
                  THEN decode(res.r.d, EvalEncoding(code.encoding, fields))
                  ELSE Throw("TypeError"))

\* isNull ? null : ... for a cell that is not null
DefaultRead(code, fields, p) ==
  Value({ DefaultCell(code, fields, read) : read \in {ReadCell(code.buffer, p)} })

\* binaryField(column, encoding, typeCast, defaultCast, fieldBuffer)
binaryField(column, encoding, typeCast, defaultCast, fieldBuffer) ==
  run(CastField(TRUE, column, encoding, defaultCast, fieldBuffer), typeCast)

\* a row state after one more cell, read from the packet as res
WithCell(s, res, value, called) ==
  IF IsThrow(res.r) THEN [s EXCEPT !.p = res.p, !.thrown = res.r]
  ELSE IF IsThrow(value) THEN [s EXCEPT !.p = res.p, !.thrown = value]
  ELSE [s EXCEPT !.p = res.p, !.cells = Append(@, value), !.called = @ \o called]

\* the statement generated for a column when cast is a function
CastCell(cast, fields, i, code, s, res) ==
  WithCell(s, res,
           binaryField(fields[i], EvalEncoding(code.encoding, fields), cast,
                       code.defaultCast, res.r).r,
           <<cast>>)

\* the statement generated for a column when cast is null
PlainCell(code, s, res) == WithCell(s, res, res.r, <<>>)

\* a mutant of the statement: the buffer expression evaluated before the null
\* bit is tested
FieldStatement_m(parse, fields, i, s) ==
  IF parse.cast # "null"
  THEN Value({ CastCell(parse.cast, fields, i, parse.cells[i].code, s,
                        IF IsNullCell(s.bitmap, parse.cells[i].isNull)
                        THEN Res(read.p, Null) ELSE read) :
                 read \in {ReadCell(parse.cells[i].code.buffer, s.p)} })
  ELSE Value({ PlainCell(parse.cells[i].code, s,
                         IF IsNullCell(s.bitmap, parse.cells[i].isNull)
                         THEN Res(cell.p, Null) ELSE cell) :
                 cell \in {DefaultRead(parse.cells[i].code, fields, s.p)} })

\* the statement generated for column i, run
FieldStatement(parse, fields, i, s) ==
  IF parse.cast # "null"
  THEN Value({ CastCell(parse.cast, fields, i, parse.cells[i].code, s, read) :
                 read \in {IF IsNullCell(s.bitmap, parse.cells[i].isNull)
                           THEN Res(s.p, Null)
                           ELSE ReadCell(parse.cells[i].code.buffer, s.p)} })
  ELSE IF IsNullCell(s.bitmap, parse.cells[i].isNull)
       THEN PlainCell(parse.cells[i].code, s, Res(s.p, Null))
       ELSE Value({ PlainCell(parse.cells[i].code, s, cell) :
                      cell \in {DefaultRead(parse.cells[i].code, fields, s.p)} })

\* the statements for the columns from i on
RECURSIVE FieldStatements(_, _, _, _)
FieldStatements(parse, fields, i, s) ==
  IF i > Len(fields) \/ IsThrow(s.thrown) THEN s
  ELSE Value({ FieldStatements(parse, fields, i + 1, next) :
                 next \in {FieldStatement(parse, fields, i, s)} })

\* BinaryRow(packet, fields, options), parse being what compile returned
BinaryRow(parse, p, fields) ==
  FieldStatements(parse, fields, 1,
        ReadBitmap(readInt8(p).p, parse.nullBitmapLength, <<>>))

(***************************************************************************)
(* PrepareStatement: the COM_STMT_PREPARE command and its packet.  A       *)
(* string is the sequence of its code points (of the basic plane).         *)
(***************************************************************************)
\* CommandCodes.STMT_PREPARE
STMT_PREPARE == 22

\* CharsetToEncoding[charsetNumber] for latin1_swedish_ci, utf8_general_ci and
\* utf8mb4_general_ci
CharsetToEncoding(charsetNumber) ==
  CASE charsetNumber = 8 -> "latin1"
    [] charsetNumber = 33 -> "utf8"
    [] charsetNumber = 45 -> "utf8"

\* the bytes of one code point in an encoding
EncodeChar(c, encoding) ==
  IF encoding = "utf8"
  THEN IF c < 128 THEN <<c>>
       ELSE IF c < 2048 THEN <<192 + (c \div 64), 128 + (c % 64)>>
       ELSE <<224 + (c \div 4096), 128 + ((c \div 64) % 64), 128 + (c % 64)>>
  ELSE IF encoding = "ascii" THEN <<IF c < 128 THEN c ELSE 63>>
  ELSE <<IF c < 256 THEN c ELSE 63>>

\* StringParser.encode(string, encoding), the bytes as a buffer
RECURSIVE encode(_, _)
encode(string, encoding) ==
  IF string = <<>> THEN <<>>
  ELSE IF Len(string) = 1 THEN EncodeChar(string[1], encoding)
  ELSE encode(SubSeq(string, 1, Len(string) \div 2), encoding)
         \o encode(SubSeq(string, Len(string) \div 2 + 1, Len(string)), encoding)

\* b.copy(this.buffer, this.offset); this.offset += b.length
writeBuffer(p, b) ==
  Res([p EXCEPT !.buffer = WriteAt(p.buffer, p.offset, b), !.offset = @ + Len(b)],
      Undefined)

\* new PrepareStatement(sql, charsetNumber)
PrepareStatement(sql, charsetNumber) ==
  [query |-> sql, charsetNumber |-> charsetNumber,
   encoding |-> CharsetToEncoding(charsetNumber)]

\* Buffer.allocUnsafe(len): memory that is not initialised, here every byte
\* the same
AllocUnsafe(len, fill) == [i \in 1..len |-> fill]

\* toPacket after PacketParser.encode, buf being the encoded query and fill
\* what the fresh buffer holds
ToPacketOf(buf, fill) ==
  writeBuffer(writeInt8([MkPacket(AllocUnsafe(5 + Len(buf), fill), 0, 5 + Len(buf))
                           EXCEPT !.offset = 4],
                        NatOfInt(STMT_PREPARE)).p,
              buf).p

\* toPacket()
toPacket(this, fill) == ToPacketOf(encode(this.query, this.encoding), fill)

\* a mutant of writeHeader: the length counts the header too
writeHeader_m(p, sequenceId) ==
  [writeInt8(writeInt24([p EXCEPT !.offset = 0], NatOfInt(Len(p.buffer))).p,
             NatOfInt(sequenceId)).p
     EXCEPT !.offset = p.offset]

\* writeHeader(sequenceId), on a buffer that holds the four bytes
writeHeader(p, sequenceId) ==
  [writeInt8(writeInt24([p EXCEPT !.offset = 0], NatOfInt(Len(p.buffer) - 4)).p,
             NatOfInt(sequenceId)).p
     EXCEPT !.offset = p.offset]

(***************************************************************************)
(* Packet.asError: an error frame read into an Error object.               *)
(***************************************************************************)
\* ErrorCodeToName[errorCode]: a property of the table, or undefined
ErrorCodeToName(errorCode) ==
  CASE errorCode = 1045 -> Str(Chars("ER_ACCESS_DENIED_ERROR"))
    [] errorCode = 1064 -> Str(Chars("ER_PARSE_ERROR"))
    [] errorCode = 1146 -> Str(Chars("ER_NO_SUCH_TABLE"))
    [] OTHER -> Undefined

\* readString(len, encoding) for len undefined: the rest of the packet
readString(p, encoding) ==
  Res([p EXCEPT !.offset = Max(p.end, p.offset)],
      decode(IF p.end > p.offset THEN Slice(p.buffer, p.offset, p.end) ELSE <<>>,
             encoding))

\* new Error(message) with the properties asError sets
MkError(errorCode, sqlState, message) ==
  [t |-> "object", code |-> ErrorCodeToName(IntOfNat(errorCode.d)),
   errno |-> errorCode, sqlState |-> sqlState, sqlMessage |-> message,
   message |-> message]

\* asError after the sqlState, message being the packet and the string
\* readString left
ErrorOf(errorCode, sqlState, message) ==
  Res(message.p, MkError(errorCode, sqlState, message.r))

\* asError after readInt16, code being the packet and the number it left
ErrorAfterCode(code, encoding) ==
  IF IsThrow(code.r) THEN code
  ELSE IF At(code.p.buffer, code.p.offset) = 35
  THEN ErrorOf(code.r,
               decode(readBuffer(skip(code.p, 1).p, Num(NatOfInt(5))).r.d, "utf8"),
               readString(readBuffer(skip(code.p, 1).p, Num(NatOfInt(5))).p, encoding))
  ELSE ErrorOf(code.r, Str(<<>>), readString(code.p, encoding))

\* asError(encoding)
asError(p, encoding) ==
  ErrorAfterCode(readInt16(readInt8(reset(p).p).p), encoding)

(***************************************************************************)
(* Specification SpecLcn: one packet, on which length-coded numbers are    *)
(* written and read.  pre is the offset before the last operation, wrote   *)
(* remembers the last value written, where, and by how much the offset     *)
(* advanced.                                                               *)
(***************************************************************************)
\* the largest start offset of a packet inside its buffer
MaxStart == 1

\* leading bytes of the packets read: both ends of the one-byte form and every tag
Tags == {0, 5, 250, 251, 252, 253, 254, 255}

\* the integers behind the eight bytes that follow the leading byte
Payloads ==
  { "0", "10000", "4294967295", "2147483648", "4294967296",
    "9007199254740991", "9007199254740992", "9007199254740993",
    "1152921504606846976", "1152921504606847000",
    "9223372036854775808", "18446744073709551615" }

\* the integers written
Values ==
  { "0", "5", "250", "251", "65535", "65536", "16777215", "16777216",
    "4294967295", "4294967296", "9007199254740991", "9007199254740992",
    "9007199254740993", "1152921504606846976", "1152921504606847000",
    "18446744073709551615" }

\* bytes a freshly allocated buffer may hold
Fills == {0, 255}

\* the ways a caller may pass the integer x: a number when a double holds it
\* exactly, its decimal string, or a Long
Representations(x) ==
  (IF RoundDouble(x) = x THEN {Num(x)} ELSE {})
    \cup {Str(NatChars(x)), LongObj(LongOfNat(x, TRUE))}

WriteInputs == {Null} \cup UNION {Representations(Dec(s)) : s \in Values}

LcnPackets ==
  { MkPacket([i \in 1..start |-> 0] \o <<9, 0, 0, 0, tag>> \o BytesOfNat(Dec(s), 8),
             start, start + 13) :
      start \in 0..MaxStart, tag \in Tags, s \in Payloads }
  \cup
  { MkPacket([i \in 1..(start + 13) |-> f], start, start + 13) :
      start \in 0..MaxStart, f \in Fills }

NoArg == [n |-> Undefined, bigNumberStrings |-> FALSE, signed |-> FALSE]
NoWrite == [n |-> Undefined, from |-> 0, len |-> -1]

Unused == <<>>

LcnInit ==
  /\ packet \in LcnPackets
  /\ op = "new"
  /\ arg = NoArg
  /\ ret = Undefined
  /\ pre = packet.offset
  /\ wrote = NoWrite
  /\ inWindow = TRUE
  /\ field = Unused /\ parser = Unused /\ row = Unused /\ calls = Unused

\* packet.readLengthCodedNumber(bigNumberStrings, signed) at the start of the body
LcnRead ==
  /\ op \in {"new", "reset"}
  /\ \E bigNumberStrings \in BOOLEAN, signed \in BOOLEAN :
       \E res \in {readLengthCodedNumber(packet, bigNumberStrings, signed)} :
           /\ packet' = res.p
           /\ ret' = res.r
           /\ arg' = [n |-> Undefined, bigNumberStrings |-> bigNumberStrings,
                      signed |-> signed]
  /\ op' = "read"
  /\ pre' = packet.offset
  /\ UNCHANGED <<wrote, inWindow, field, parser, row, calls>>

\* packet.writeLengthCodedNumber(n) at the start of the body
LcnWrite ==
  /\ op = "new"
  /\ \E n \in WriteInputs :
       \E res \in {writeLengthCodedNumber(packet, n)} :
           /\ packet' = res.p
           /\ ret' = res.r
           /\ arg' = [n |-> n, bigNumberStrings |-> FALSE, signed |-> FALSE]
           /\ wrote' = [n |-> n, from |-> packet.offset,
                        len |-> res.p.offset - packet.offset]
  /\ op' = "write"
  /\ pre' = packet.offset
  /\ UNCHANGED <<inWindow, field, parser, row, calls>>

\* packet.reset()
LcnReset ==
  /\ op \in {"read", "write"}
  /\ packet' = reset(packet).p
  /\ ret' = Undefined
  /\ arg' = NoArg
  /\ op' = "reset"
  /\ pre' = packet.offset
  /\ UNCHANGED <<wrote, inWindow, field, parser, row, calls>>

LcnNext == LcnRead \/ LcnWrite \/ LcnReset

SpecLcn == LcnInit /\ [][LcnNext]_vars

(***************************************************************************)
(* Specification SpecCursor: the readers applied in any order to a packet  *)
(* that lies inside a buffer, possibly followed by bytes of the next       *)
(* packet.  inWindow records whether every read so far asked only for      *)
(* bytes before end.  A packet is followed until a read throws or leaves   *)
(* a cursor that is not an integer or lies beyond the buffer.              *)
(***************************************************************************)
\* the longest explicit length given to readBuffer, the farthest skip
MaxLen == 2
MaxSkip == 2

\* packet bodies: integers, length-coded values in each form, complete and cut
\* short, text with and without its terminator, dates, an EOF packet
CursorBodies ==
  { <<>>, <<5>>, <<7, 1, 2>>, <<2, 65, 66>>, <<3, 65>>, <<65, 0, 66, 0>>, <<65, 66>>,
    <<251>>, <<252, 1, 0, 9>>, <<253, 2, 0, 0, 7, 7>>, <<252, 1>>, <<255>>,
    <<254, 1, 0, 0, 0, 0, 0, 0, 0, 8>>, <<254, 255, 255, 255, 255, 255, 255, 255, 255>>,
    <<4, 230, 7, 1, 2>>, <<4, 230>>, <<254, 1, 0>>, <<254, 0, 0, 2, 0>> }

\* bytes of the next packet in the same buffer
Trailers == { <<>>, <<1, 0, 0, 0, 9>> }

CursorPackets ==
  { MkPacket([i \in 1..start |-> 0] \o <<Len(body), 0, 0, 0>> \o body \o rest,
             start, start + 4 + Len(body)) :
      start \in 0..MaxStart, body \in CursorBodies, rest \in Trailers }

Encodings == {"latin1", "utf8"}

CursorInit ==
  /\ packet \in CursorPackets
  /\ op = "new"
  /\ arg = NoArg
  /\ ret = Undefined
  /\ pre = packet.offset
  /\ wrote = NoWrite
  /\ inWindow = TRUE
  /\ field = Unused /\ parser = Unused /\ row = Unused /\ calls = Unused

\* the packet is still being read
Live ==
  /\ ~IsThrow(ret)
  /\ packet.offset # NotAnOffset
  /\ packet.offset <= Len(packet.buffer)

\* the bytes left before end
Room(p) == p.end - p.offset

\* the effect of one reader: res is what it left and returned, need the number
\* of bytes the wire format gives the value at the cursor
Did(name, a, res, need) ==
  /\ packet' = res.p
  /\ ret' = res.r
  /\ op' = name
  /\ arg' = [NoArg EXCEPT !.n = a]
  /\ pre' = packet.offset
  /\ inWindow' = (inWindow /\ need >= 0 /\ need <= Room(packet))
  /\ UNCHANGED <<wrote, field, parser, row, calls>>

\* the leading byte at the cursor, -1 when the window holds none
TagAt(p) == IF p.offset < p.end THEN At(p.buffer, p.offset) ELSE -1

\* bytes of the length-coded integer with leading byte t
FormWidth(t) ==
  CASE t = 252 -> 3
    [] t = 253 -> 4
    [] t = 254 -> 9
    [] OTHER   -> 1

\* the length a length-coded prefix of w bytes inside the window announces
Announced(p, t, w) ==
  CASE t <= 250 -> NatOfInt(t)
    [] t = 251  -> <<>>
    [] OTHER    -> NatOfBytes(SubSeq(p.buffer, p.offset + 2, p.offset + w))

\* bytes of the length-coded string at the cursor: beyond the window when its
\* prefix is, or when the length it announces is
PrefixedWidth(p, w, len) ==
  IF Len(len) > 9 THEN Room(p) + 1 ELSE w + IntOfNat(len)

LengthCodedWidth(p, t, w) ==
  IF w > Room(p) THEN w ELSE PrefixedWidth(p, w, Announced(p, t, w))

\* bytes of the null-terminated string at the cursor, its terminator included
TerminatedWidth(p, end) ==
  IF end < p.end THEN end + 1 - p.offset ELSE Room(p) + 1

\* bytes of the binary date at the cursor: the length byte and the fields
DateWidth(t) == IF t = 251 \/ t < 0 THEN 1 ELSE 1 + t

CurReadInt8 ==
  Live /\ \E res \in {readInt8(packet)} : Did("readInt8", Undefined, res, 1)

CurReadInt16 ==
  Live /\ \E res \in {readInt16(packet)} : Did("readInt16", Undefined, res, 2)

CurReadInt24 ==
  Live /\ \E res \in {readInt24(packet)} : Did("readInt24", Undefined, res, 3)

CurReadInt32 ==
  Live /\ \E res \in {readInt32(packet)} : Did("readInt32", Undefined, res, 4)

CurReadLengthCodedNumber ==
  Live /\ \E res \in {readLengthCodedNumber(packet, FALSE, FALSE)} :
    Did("readLengthCodedNumber", Undefined, res, FormWidth(TagAt(packet)))

CurReadLengthCodedBuffer ==
  Live /\ \E res \in {readLengthCodedBuffer(packet)} :
    Did("readLengthCodedBuffer", Undefined, res,
        LengthCodedWidth(packet, TagAt(packet), FormWidth(TagAt(packet))))

CurReadLengthCodedString ==
  Live /\ \E encoding \in Encodings : \E res \in {readLengthCodedString(packet, encoding)} :
    Did("readLengthCodedString", Str(Chars(encoding)), res,
        LengthCodedWidth(packet, TagAt(packet), FormWidth(TagAt(packet))))

CurReadBuffer ==
  Live /\ \E len \in {Undefined} \cup {Num(NatOfInt(k)) : k \in 0..MaxLen} :
    \E res \in {readBuffer(packet, len)} :
      Did("readBuffer", len, res, IF len.t = "undefined" THEN 0 ELSE IntOfNat(len.d))

CurReadNullTerminatedString ==
  Live /\ \E encoding \in Encodings : \E res \in {readNullTerminatedString(packet, encoding)} :
    Did("readNullTerminatedString", Str(Chars(encoding)), res,
        TerminatedWidth(packet, ScanEnd(packet.buffer, packet.offset)))

CurReadDateTime ==
  Live /\ \E res \in {readDateTime(packet)} :
    Did("readDateTime", Undefined, res, DateWidth(TagAt(packet)))

CurSkip ==
  Live /\ \E num \in 0..MaxSkip : \E res \in {skip(packet, num)} :
    Did("skip", Num(NatOfInt(num)), res, num)

CurReset ==
  Live /\ \E res \in {reset(packet)} :
    Did("reset", Undefined, res, 0)

CursorNext ==
  \/ CurReadInt8 \/ CurReadInt16 \/ CurReadInt24 \/ CurReadInt32
  \/ CurReadLengthCodedNumber \/ CurReadLengthCodedBuffer \/ CurReadLengthCodedString
  \/ CurReadBuffer \/ CurReadNullTerminatedString \/ CurReadDateTime
  \/ CurSkip \/ CurReset

SpecCursor == CursorInit /\ [][CursorNext]_vars

(***************************************************************************)
(* Specification SpecInt64: the default 64-bit readers on a packet whose   *)
(* body is an eight-byte integer, whole or cut short by the buffer's end.  *)
(***************************************************************************)
\* the most bytes missing from the eight
MaxCut == 1

Int64Packets ==
  { MkPacket([i \in 1..start |-> 0] \o <<8 - cut, 0, 0, 0>>
               \o SubSeq(BytesOfNat(Dec(s), 8), 1, 8 - cut),
             start, start + 12 - cut) :
      start \in 0..MaxStart, cut \in 0..MaxCut, s \in Payloads }

Int64Init ==
  /\ packet \in Int64Packets
  /\ op = "new"
  /\ arg = NoArg
  /\ ret = Undefined
  /\ pre = packet.offset
  /\ wrote = NoWrite
  /\ inWindow = TRUE
  /\ field = Unused /\ parser = Unused /\ row = Unused /\ calls = Unused

\* a reader called at the start of the body
Called(name, res) ==
  /\ op \in {"new", "reset"}
  /\ packet' = res.p
  /\ ret' = res.r
  /\ op' = name
  /\ pre' = packet.offset
  /\ UNCHANGED <<arg, wrote, inWindow, field, parser, row, calls>>

I64ReadInt64 == \E res \in {readInt64(packet)} : Called("readInt64", res)

I64ReadSInt64 == \E res \in {readSInt64(packet)} : Called("readSInt64", res)

I64Unsigned ==
  \E r \in {uint64NumberIfPossible(packet.buffer, packet.offset)} :
    Called("uint64NumberIfPossible", Res(packet, r))

I64Signed ==
  \E r \in {int64NumberIfPossible(packet.buffer, packet.offset)} :
    Called("int64NumberIfPossible", Res(packet, r))

I64Reset ==
  /\ op \notin {"new", "reset"}
  /\ packet' = reset(packet).p
  /\ ret' = Undefined
  /\ op' = "reset"
  /\ pre' = packet.offset
  /\ UNCHANGED <<arg, wrote, inWindow, field, parser, row, calls>>

Int64Next == I64ReadInt64 \/ I64ReadSInt64 \/ I64Unsigned \/ I64Signed \/ I64Reset

SpecInt64 == Int64Init /\ [][Int64Next]_vars

(***************************************************************************)
(* Specification SpecAscii: a text-protocol row whose first cell is a      *)
(* decimal integer, decoded by textField from the packet or by the decoder *)
(* called on a copy of the cell.                                           *)
(***************************************************************************)
AsciiTexts ==
  { "", "0", "7", "-42", "+5", "999999999999999", "-999999999999999",
    "8999999999999999", "-8999999999999999", "9007199254740990",
    "-9007199254740990", "9007199254740991", "9007199254740992",
    "-9007199254740992", "9007199254740993", "-9007199254740993",
    "9999999999999999", "90071992547409921", "-90071992547409921",
    "18446744073709551615" }

\* a cell: its length-coded text
Cell(text) == <<Len(text)>> \o text

AsciiPackets ==
  { MkPacket([i \in 1..start |-> 0] \o <<Len(s) + 1 + Len(trailer), 0, 0, 0>>
               \o Cell(Chars(s)) \o trailer,
             start, start + 5 + Len(s) + Len(trailer)) :
      start \in 0..MaxStart, s \in AsciiTexts, trailer \in {<<>>, Cell(<<49>>)} }

AsciiInit ==
  /\ packet \in AsciiPackets
  /\ op = "new"
  /\ arg = Window(<<>>, 0, 0)
  /\ ret = Undefined
  /\ pre = packet.offset
  /\ wrote = NoWrite
  /\ inWindow = TRUE
  /\ field = Unused /\ parser = Unused /\ row = Unused /\ calls = Unused

\* a decoder called on the first cell of the row
Decoded(name, window, res) ==
  /\ op \in {"new", "reset"}
  /\ packet' = res.p
  /\ ret' = res.r
  /\ op' = name
  /\ arg' = window
  /\ pre' = packet.offset
  /\ UNCHANGED <<wrote, inWindow, field, parser, row, calls>>

\* the first cell of the row, as a buffer of its own
FirstCell(p) ==
  SubSeq(p.buffer, p.start + 6, p.start + 5 + p.buffer[p.start + 5])

\* textField(encoding, PacketParser.intAscii, packet)
AsciiTextFieldBig ==
  \E res \in {textField("utf8", "intAscii", packet)} :
    Decoded("intAscii",
            Window(packet.buffer, packet.offset + 1, Len(FirstCell(packet))), res)

\* textField(encoding, PacketParser.intAsciiSmall, packet)
AsciiTextFieldSmall ==
  \E res \in {textField("utf8", "intAsciiSmall", packet)} :
    Decoded("intAsciiSmall",
            Window(packet.buffer, packet.offset + 1, Len(FirstCell(packet))), res)

\* textField(encoding, undefined, packet)
AsciiTextFieldText ==
  \E encoding \in Encodings \cup {"binary"} :
    \E res \in {textField(encoding, "null", packet)} :
      Decoded("textField", Window(packet.buffer, packet.offset + 1,
                                  Len(FirstCell(packet))), res)

\* PacketParser.intAscii(cell): offset and length default to the whole buffer
AsciiCellBig ==
  \E cell \in {FirstCell(packet)} :
    Decoded("intAscii", Window(cell, 0, Len(cell)),
            Res(packet, intAscii(cell, 0, Len(cell))))

\* PacketParser.intAsciiSmall(cell)
AsciiCellSmall ==
  \E cell \in {FirstCell(packet)} :
    Decoded("intAsciiSmall", Window(cell, 0, Len(cell)),
            Res(packet, intAsciiSmall(cell, 0, Len(cell))))

AsciiReset ==
  /\ op \notin {"new", "reset"}
  /\ packet' = reset(packet).p
  /\ ret' = Undefined
  /\ op' = "reset"
  /\ pre' = packet.offset
  /\ UNCHANGED <<arg, wrote, inWindow, field, parser, row, calls>>

AsciiNext ==
  \/ AsciiTextFieldBig \/ AsciiTextFieldSmall \/ AsciiTextFieldText
  \/ AsciiCellBig \/ AsciiCellSmall \/ AsciiReset

SpecAscii == AsciiInit /\ [][AsciiNext]_vars

(***************************************************************************)
(* Specification SpecCast: a CastField constructed over a cell, run with   *)
(* typeCast callbacks, its defaultRead called again and again.             *)
(***************************************************************************)
\* the most calls of defaultRead recorded for one field
MaxCalls == 3

CellBuffers ==
  { Undefined, Null, Buf(<<>>), Buf(Chars("42")), Buf(Chars("-7")),
    Buf(<<233, 65>>), Buf(Chars("9007199254740993")) }

DefaultCasts == {"null", "undefined", "intAscii", "intAsciiSmall", "alwaysNull"}

CastEncodings == {"binary", "null", "undefined", "ascii", "latin1", "utf8"}

TypeCasts == {"next", "nextTwice", "buffer", "own"}

Columns == { [name |-> "c", encoding |-> "utf8"] }

\* the arguments of a constructor call, and the callback last run
CastArgs(isBinary, column, encoding, defaultCast, fieldBuffer) ==
  [isBinary |-> isBinary, column |-> column, encoding |-> encoding,
   defaultCast |-> defaultCast, fieldBuffer |-> fieldBuffer, typeCast |-> "none"]

CastInit ==
  /\ \E isBinary \in BOOLEAN, column \in Columns, encoding \in CastEncodings,
        defaultCast \in DefaultCasts, fieldBuffer \in CellBuffers :
       /\ field = CastField(isBinary, column, encoding, defaultCast, fieldBuffer)
       /\ arg = CastArgs(isBinary, column, encoding, defaultCast, fieldBuffer)
  /\ op = "new"
  /\ ret = Undefined
  /\ calls = <<>>
  /\ packet = Unused /\ pre = 0 /\ wrote = NoWrite /\ inWindow = TRUE
  /\ parser = Unused /\ row = Unused

\* field.run(typeCast)
CastRun ==
  \E typeCast \in TypeCasts :
    \E cast \in {run(field, typeCast)} :
      /\ Len(calls) + Len(cast.reads) <= MaxCalls
      /\ op' = "run"
      /\ arg' = [arg EXCEPT !.typeCast = typeCast]
      /\ ret' = cast.r
      /\ calls' = calls \o cast.reads
      /\ UNCHANGED <<packet, pre, wrote, inWindow, field, parser, row>>

\* field.defaultRead(), called by a callback that kept it
CastDefaultRead ==
  \E read \in {CallDefaultRead(field.defaultRead)} :
    /\ Len(calls) < MaxCalls
    /\ op' = "defaultRead"
    /\ ret' = read
    /\ calls' = Append(calls, read)
    /\ UNCHANGED <<packet, arg, pre, wrote, inWindow, field, parser, row>>

CastNext == CastRun \/ CastDefaultRead

SpecCast == CastInit /\ [][CastNext]_vars

(***************************************************************************)
(* Specification SpecBinary: a binary-protocol result set.  The row parser *)
(* is compiled for the fields under the options of the query and the       *)
(* config of the connection, then called on each row packet the server     *)
(* sends.  arg holds the fields, the options and config objects and, as a  *)
(* record of what the server sent, the row (which columns are NULL, which  *)
(* of the values of the model the others hold); row is what the parser     *)
(* returned or threw and the bitmap bytes it read, calls the callbacks it   *)
(* called.                                                                 *)
(***************************************************************************)
\* the most columns of a result set
MaxFields == 4

FieldNames == <<"c0", "c1", "c2", "c3", "c4", "c5", "c6", "c7", "c8">>

\* a column definition as the parsers read it
Column(columnType, unsigned, encoding) ==
  [name |-> "", table |-> "t", columnType |-> columnType, unsigned |-> unsigned,
   encoding |-> encoding, decimals |-> 0]

\* the column lists of the model are the beginnings of these
FieldOrders ==
  { << Column("TINY", TRUE, "binary"), Column("VAR_STRING", FALSE, "utf8"),
       Column("SHORT", FALSE, "binary"), Column("DATETIME", FALSE, "binary"),
       Column("LONG", TRUE, "binary"), Column("NULL", FALSE, "binary"),
       Column("TINY", FALSE, "binary"), Column("VAR_STRING", FALSE, "latin1"),
       Column("YEAR", TRUE, "binary") >>,
    << Column("VAR_STRING", FALSE, "latin1"), Column("LONG", FALSE, "binary"),
       Column("TINY", FALSE, "binary"), Column("SHORT", TRUE, "binary"),
       Column("TIMESTAMP", FALSE, "binary"), Column("VAR_STRING", FALSE, "utf8"),
       Column("INT24", TRUE, "binary"), Column("DATE", FALSE, "binary"),
       Column("TINY", TRUE, "binary") >>,
    << Column("NULL", FALSE, "binary"), Column("DATETIME", FALSE, "binary"),
       Column("INT24", FALSE, "binary"), Column("STRING", FALSE, "utf8"),
       Column("YEAR", TRUE, "binary"), Column("TINY", TRUE, "binary"),
       Column("SHORT", FALSE, "binary"), Column("NEWDATE", FALSE, "binary"),
       Column("BLOB", FALSE, "latin1") >> }

FieldListsTo(most) ==
  { [i \in 1..n |-> [order[i] EXCEPT !.name = FieldNames[i]]] :
      order \in FieldOrders, n \in 1..most }

FieldLists == FieldListsTo(MaxFields)

\* the values of binaryCast and of typeCast in options and in config; the
\* four functions are different callbacks
BinaryOptions ==
  [binaryCast : {"undefined", "false", "true", "buffer"},
   typeCast : {"undefined", "next"},
   supportBigNumbers : {FALSE}, bigNumberStrings : {FALSE}]

BinaryConfigs ==
  [binaryCast : {"undefined", "false", "true", "nextTwice"},
   typeCast : {"undefined", "own"},
   dateStrings : {FALSE}, supportBigNumbers : {FALSE}, bigNumberStrings : {FALSE}]

\* a value of a column on the wire and the value it stands for
Wire(bytes, value) == [bytes |-> bytes, value |-> value]

Calendar(y, m, d, H, M, S) ==
  [t |-> "Date", neg |-> FALSE, d |-> <<y, m, d, H, M, S, 0>>]

\* the values the server sends for a column of the model: two of them, as a
\* third one that the column's decoder cannot interpret where the type has
\* such values, and as a fourth a date-time with microseconds
SentCell(f, variant) ==
  CASE f.columnType = "JSON" ->
         IF variant = 1 THEN Wire(<<1, 49>>, Num(Dec("1")))
         ELSE IF variant = 2 THEN Wire(<<4, 110, 117, 108, 108>>, Null)
         ELSE Wire(<<2, 120, 125>>, NaN)
    [] f.columnType = "LONGLONG" ->
         IF variant = 1 THEN Wire(<<210, 2, 150, 73, 0, 0, 0, 0>>, Num(Dec("1234567890")))
         ELSE IF f.unsigned
         THEN Wire(<<255, 255, 255, 255, 255, 255, 255, 127>>,
                   Num(Dec("9223372036854775807")))
         ELSE Wire(<<255, 255, 255, 255, 255, 255, 255, 255>>, SignedNum(TRUE, Dec("1")))
    [] f.columnType = "TINY" ->
         IF variant = 1 THEN Wire(<<42>>, Num(Dec("42")))
         ELSE IF f.unsigned THEN Wire(<<200>>, Num(Dec("200")))
         ELSE Wire(<<200>>, SignedNum(TRUE, Dec("56")))
    [] f.columnType = "SHORT" ->
         IF variant = 1 THEN Wire(<<1, 2>>, Num(Dec("513")))
         ELSE IF f.unsigned THEN Wire(<<255, 255>>, Num(Dec("65535")))
         ELSE Wire(<<255, 255>>, SignedNum(TRUE, Dec("1")))
    [] f.columnType \in {"LONG", "INT24"} ->
         IF variant = 1 THEN Wire(<<64, 226, 1, 0>>, Num(Dec("123456")))
         ELSE IF f.unsigned THEN Wire(<<0, 0, 0, 128>>, Num(Dec("2147483648")))
         ELSE Wire(<<0, 0, 0, 128>>, SignedNum(TRUE, Dec("2147483648")))
    [] f.columnType = "YEAR" ->
         IF variant = 1 THEN Wire(<<230, 7>>, Num(Dec("2022")))
         ELSE Wire(<<109, 7>>, Num(Dec("1901")))
    [] f.columnType = "NULL" -> Wire(<<>>, Null)
    [] f.columnType \in {"DATE", "DATETIME", "TIMESTAMP", "NEWDATE"} ->
         IF variant = 1
         THEN Wire(<<4, 230, 7, 11, 1>>, Calendar(2022, 11, 1, 0, 0, 0))
         ELSE IF variant = 2
         THEN Wire(<<7, 207, 7, 12, 31, 23, 59, 58>>, Calendar(1999, 12, 31, 23, 59, 58))
         ELSE IF variant = 3
         THEN Wire(<<4, 0, 0, 0, 0>>, [t |-> "Date", neg |-> FALSE, d |-> <<>>])
         ELSE Wire(<<11, 230, 7, 11, 1, 23, 59, 58, 224, 46, 0, 0>>,
                   [t |-> "Date", neg |-> FALSE, d |-> <<2022, 11, 1, 23, 59, 58, 12>>])
    [] OTHER ->
         IF variant = 1 THEN Wire(<<2, 104, 105>>, Str(<<104, 105>>))
         ELSE IF f.encoding = "latin1" THEN Wire(<<1, 233>>, Str(<<233>>))
         ELSE Wire(<<1, 233>>, Str(<<65533>>))

\* a row: the set of its NULL columns, and which value the others hold
SentRow(nulls, variant) == [nulls |-> nulls, variant |-> variant]

\* the rows the server sends for the columns: none of them NULL, one, or all;
\* a column of type NULL is NULL in every row
RowsFor(fields, variants) ==
  { SentRow(nulls \cup { k \in 1..Len(fields) : fields[k].columnType = "NULL" },
            variant) :
      nulls \in {{}, 1..Len(fields)} \cup { {k} : k \in 1..Len(fields) },
      variant \in variants }

\* byte j of the null bitmap of a row: column k (from 1) has bit k + 1
RECURSIVE BitmapByte(_, _, _)
BitmapByte(nulls, j, bit) ==
  IF bit > 7 THEN 0
  ELSE (IF (8 * j + bit - 1) \in nulls THEN IntPow2(bit) ELSE 0)
       + BitmapByte(nulls, j, bit + 1)

\* the cells of the columns from k on that are not NULL
RECURSIVE SentCells(_, _, _)
SentCells(fields, sent, k) ==
  IF k > Len(fields) THEN <<>>
  ELSE (IF k \in sent.nulls THEN <<>> ELSE SentCell(fields[k], sent.variant).bytes)
       \o SentCells(fields, sent, k + 1)

\* the body of the row packet: the status byte, the null bitmap, the cells
RowBody(fields, sent) ==
  <<0>> \o [j \in 1..((Len(fields) + 9) \div 8) |-> BitmapByte(sent.nulls, j - 1, 0)]
        \o SentCells(fields, sent, 1)

\* the row packet: a frame header and the body
RowPacket(body) ==
  MkPacket(<<Len(body), 0, 0, 1>> \o body, 0, 4 + Len(body))

BinaryArgs(fields, options, config, variants, sent) ==
  [fields |-> fields, options |-> options, config |-> config,
   variants |-> variants, sent |-> sent]

\* a result set about to be parsed
BinaryStart(lists, optionses, configs, variants) ==
  /\ \E fields \in lists, options \in optionses, config \in configs :
       \E sent \in RowsFor(fields, variants) :
         /\ arg = BinaryArgs(fields, options, config, variants, sent)
         /\ packet = RowPacket(RowBody(fields, sent))
  /\ op = "new"
  /\ parser = Unused /\ row = Unused /\ calls = <<>>
  /\ ret = Undefined /\ pre = 0 /\ wrote = NoWrite /\ inWindow = TRUE
  /\ field = Unused

\* the values of every type that its decoder can interpret
WellFormed == 1..2

BinaryInit == BinaryStart(FieldLists, BinaryOptions, BinaryConfigs, WellFormed)

\* compile(fields, options, config), which also writes to options
BinaryCompile ==
  /\ op = "new"
  /\ parser' = compile(arg.fields, arg.options, arg.config)
  /\ arg' = [arg EXCEPT !.options = CompiledOptions(arg.options, arg.config)]
  /\ op' = "compile"
  /\ UNCHANGED <<packet, ret, pre, wrote, inWindow, field, row, calls>>

\* new BinaryRow(packet, fields, options)
BinaryParse ==
  /\ op \in {"compile", "packet"}
  /\ \E s \in {BinaryRow(parser, packet, arg.fields)} :
       /\ packet' = s.p
       /\ row' = [cells |-> s.cells, thrown |-> s.thrown, bitmap |-> s.bitmap]
       /\ calls' = s.called
  /\ op' = "row"
  /\ pre' = packet.offset
  /\ UNCHANGED <<arg, ret, wrote, inWindow, field, parser>>

\* the next row packet of the result set arrives
BinaryPacket ==
  /\ op = "row"
  /\ \E sent \in RowsFor(arg.fields, arg.variants) :
       /\ arg' = [arg EXCEPT !.sent = sent]
       /\ packet' = RowPacket(RowBody(arg.fields, sent))
  /\ op' = "packet"
  /\ pre' = 0
  /\ row' = Unused /\ calls' = <<>>
  /\ UNCHANGED <<ret, wrote, inWindow, field, parser>>

BinaryNext == BinaryCompile \/ BinaryParse \/ BinaryPacket

SpecBinary == BinaryInit /\ [][BinaryNext]_vars

(***************************************************************************)
(* Specification SpecBitmap: result sets of more columns, enough for a     *)
(* null bitmap of two bytes, parsed without a callback or with one that    *)
(* returns the default value.                                              *)
(***************************************************************************)
\* the most columns of a result set here
MaxColumns == 8

BitmapOptions ==
  [binaryCast : {"undefined", "next"}, typeCast : {"undefined"},
   supportBigNumbers : {FALSE}, bigNumberStrings : {FALSE}]

BitmapConfigs ==
  [binaryCast : {"undefined"}, typeCast : {"undefined"}, dateStrings : {FALSE},
   supportBigNumbers : {FALSE}, bigNumberStrings : {FALSE}]

BitmapInit ==
  BinaryStart(FieldListsTo(MaxColumns), BitmapOptions, BitmapConfigs, WellFormed)

SpecBitmap == BitmapInit /\ [][BinaryNext]_vars

(***************************************************************************)
(* Specification SpecMalformed: result sets with LONGLONG and JSON columns *)
(* under the big-number options, whose rows also hold values the column's  *)
(* decoder cannot interpret.                                               *)
(***************************************************************************)
MalformedLists ==
  { [i \in 1..Len(order) |-> [order[i] EXCEPT !.name = FieldNames[i]]] :
      order \in { << Column("LONGLONG", TRUE, "binary"), Column("TINY", TRUE, "binary") >>,
                  << Column("TINY", FALSE, "binary"), Column("LONGLONG", FALSE, "binary"),
                     Column("VAR_STRING", FALSE, "utf8") >>,
                  << Column("JSON", FALSE, "utf8"), Column("SHORT", TRUE, "binary") >>,
                  << Column("DATETIME", FALSE, "binary"), Column("JSON", FALSE, "utf8"),
                     Column("LONG", FALSE, "binary") >>,
                  << Column("TIMESTAMP", FALSE, "binary"), Column("YEAR", TRUE, "binary") >> } }

MalformedOptions ==
  [binaryCast : {"undefined"}, typeCast : {"undefined"},
   supportBigNumbers : BOOLEAN, bigNumberStrings : BOOLEAN]

MalformedConfigs ==
  [binaryCast : {"undefined"}, typeCast : {"undefined"}, dateStrings : {FALSE},
   supportBigNumbers : BOOLEAN, bigNumberStrings : {FALSE}]

MalformedInit ==
  BinaryStart(MalformedLists, MalformedOptions, MalformedConfigs, 1..3)

SpecMalformed == MalformedInit /\ [][BinaryNext]_vars

(***************************************************************************)
(* Specification SpecPrepare: a PrepareStatement command, its packet made  *)
(* by toPacket, the frame header written on it by writeHeader as the       *)
(* sender does.  arg is the command, ret the sequence id last written.     *)
(***************************************************************************)
\* the longest query is this many characters beyond one byte of length
MaxQuery == 2

\* queries: empty, the example, one with a parameter, one outside ascii
\* (e acute, euro sign), and long ones
Queries ==
  { <<>>, Chars("SELECT 1"), Chars("SELECT ?"), <<233, 8364>> }
    \cup { [i \in 1..(254 + n) |-> 65] : n \in 1..MaxQuery }

Charsets == {8, 33, 45}

SequenceIds == {0, 1, 255}

PrepareInit ==
  /\ \E sql \in Queries, charsetNumber \in Charsets :
       arg = PrepareStatement(sql, charsetNumber)
  /\ op = "new"
  /\ packet = Unused
  /\ ret = -1 /\ pre = 0 /\ wrote = NoWrite /\ inWindow = TRUE
  /\ field = Unused /\ parser = Unused /\ row = Unused /\ calls = Unused

\* command.toPacket()
PrepareToPacket ==
  /\ op = "new"
  /\ \E fill \in Fills \cup {22} : packet' = toPacket(arg, fill)
  /\ op' = "toPacket"
  /\ UNCHANGED <<arg, ret, pre, wrote, inWindow, field, parser, row, calls>>

\* packet.writeHeader(sequenceId)
PrepareWriteHeader ==
  /\ op \in {"toPacket", "writeHeader"}
  /\ \E sequenceId \in SequenceIds :
       /\ packet' = writeHeader(packet, sequenceId)
       /\ ret' = sequenceId
  /\ op' = "writeHeader"
  /\ UNCHANGED <<arg, pre, wrote, inWindow, field, parser, row, calls>>

PrepareNext == PrepareToPacket \/ PrepareWriteHeader

SpecPrepare == PrepareInit /\ [][PrepareNext]_vars

(***************************************************************************)
(* Specification SpecError: an error frame from the server, read into an   *)
(* Error by asError wherever the cursor stands.                            *)
(***************************************************************************)
\* error codes in the table and outside it
ErrorCodes == {"1045", "1064", "1146", "0", "9999", "65535"}

SqlStates == { <<>>, <<35>> \o Chars("42S02") }

Messages == { Chars("no"), <<84, 97, 98, 108, 101, 32, 233>> }

ErrorBodies ==
  { <<255>> \o BytesOfNat(Dec(code), 2) \o state \o message :
      code \in ErrorCodes, state \in SqlStates, message \in Messages }

ErrorPackets ==
  { MkPacket([i \in 1..start |-> 0] \o <<Len(body), 0, 0, 1>> \o body,
             start, start + 4 + Len(body)) :
      start \in 0..MaxStart, body \in ErrorBodies }

ErrorInit ==
  /\ packet \in ErrorPackets
  /\ op = "new"
  /\ arg = "utf8"
  /\ ret = Undefined
  /\ pre = packet.offset
  /\ wrote = NoWrite /\ inWindow = TRUE
  /\ field = Unused /\ parser = Unused /\ row = Unused /\ calls = Unused

\* packet.asError(encoding)
ErrorAsError ==
  \E encoding \in Encodings :
    \E res \in {asError(packet, encoding)} :
      /\ packet' = res.p
      /\ ret' = res.r
      /\ op' = "asError"
      /\ arg' = encoding
      /\ pre' = packet.offset
      /\ UNCHANGED <<wrote, inWindow, field, parser, row, calls>>

\* packet.readInt8(), as isError and the command reading the frame do
ErrorReadInt8 ==
  /\ packet.offset < packet.end
  /\ \E res \in {readInt8(packet)} :
       /\ packet' = res.p
       /\ ret' = res.r
  /\ op' = "readInt8"
  /\ pre' = packet.offset
  /\ UNCHANGED <<arg, wrote, inWindow, field, parser, row, calls>>

ErrorNext == ErrorAsError \/ ErrorReadInt8

SpecError == ErrorInit /\ [][ErrorNext]_vars

(***************************************************************************)
(* Packet.writeDate.  A JavaScript Date given to it is the local fields    *)
(* its getters return.                                                     *)
(***************************************************************************)
LocalDate(year, month, date, hours, minutes, seconds, milliseconds) ==
  [year |-> year, month |-> month, date |-> date, hours |-> hours,
   minutes |-> minutes, seconds |-> seconds, milliseconds |-> milliseconds]

\* the values written and the widths of writeUInt8, writeUInt16LE, writeUInt32LE
DateWrites(d) ==
  << <<11, 1>>, <<d.year, 2>>, <<d.month + 1, 1>>, <<d.date, 1>>, <<d.hours, 1>>,
     <<d.minutes, 1>>, <<d.seconds, 1>>, <<d.milliseconds * 1000, 4>> >>

\* buffer.writeUIntNN(value, off) one after the other: a value too large for
\* its width or bytes outside the buffer throw, and leave what was written
RECURSIVE WriteFields(_, _, _)
WriteFields(b, off, writes) ==
  IF writes = <<>> THEN Res(b, Undefined)
  ELSE IF (writes[1][2] < 4 /\ writes[1][1] >= IntPow2(8 * writes[1][2]))
            \/ ~InBuffer(b, off, writes[1][2])
  THEN Res(b, Throw("RangeError"))
  ELSE WriteFields(WriteAt(b, off, BytesOfNat(NatOfInt(writes[1][1]), writes[1][2])),
                   off + writes[1][2], Tail(writes))

\* this.offset += 12 once every write returned
DateWritten(p, written) ==
  IF IsThrow(written.r) THEN Res([p EXCEPT !.buffer = written.p], written.r)
  ELSE Res([p EXCEPT !.buffer = written.p, !.offset = @ + 12], Undefined)

writeDate(p, d) == DateWritten(p, WriteFields(p.buffer, p.offset, DateWrites(d)))

\* The local fields of the Date that new Date(y, m - 1, d, H, M, S, ms) made
\* of the fields of a calendar date: the constructor takes a year from 0 to
\* 99 as 1900 + year
LocalFields(date) ==
  LocalDate(IF date.d[1] >= 0 /\ date.d[1] <= 99 THEN 1900 + date.d[1] ELSE date.d[1],
            date.d[2] - 1, date.d[3], date.d[4], date.d[5], date.d[6], date.d[7])

(***************************************************************************)
(* Specification SpecDate: writeDate of a local date-time on a fresh       *)
(* packet, reset, readDateTime.                                            *)
(***************************************************************************)
\* years at both ends of the two-digit range, of the Unix epoch and of the
\* 16 bits of the wire format
Years == {0, 99, 100, 1969, 2024, 65535, 65536}

LocalDates ==
  { LocalDate(year, month, date, hours, 59, seconds, milliseconds) :
      year \in Years, month \in {0, 11}, date \in {1, 31}, hours \in {0, 23},
      seconds \in {0, 59}, milliseconds \in {0, 1, 999} }

\* fresh packets with room for the twelve bytes, for more, and for fewer
DatePackets ==
  { MkPacket([i \in 1..(start + 4 + room) |-> f], start, start + 4 + room) :
      start \in 0..MaxStart, f \in Fills, room \in {5, 12, 13} }

DateInit ==
  /\ packet \in DatePackets
  /\ op = "new"
  /\ arg = NoArg
  /\ ret = Undefined
  /\ pre = packet.offset
  /\ wrote = NoWrite
  /\ inWindow = TRUE
  /\ field = Unused /\ parser = Unused /\ row = Unused /\ calls = Unused

\* packet.writeDate(d) at the start of the body
DateWriteDate ==
  /\ op = "new"
  /\ \E d \in LocalDates :
       \E res \in {writeDate(packet, d)} :
           /\ packet' = res.p
           /\ ret' = res.r
           /\ wrote' = [n |-> d, from |-> packet.offset,
                        len |-> res.p.offset - packet.offset]
  /\ op' = "writeDate"
  /\ pre' = packet.offset
  /\ UNCHANGED <<arg, inWindow, field, parser, row, calls>>

\* packet.reset()
DateReset ==
  /\ op \in {"writeDate", "readDateTime"}
  /\ packet' = reset(packet).p
  /\ ret' = Undefined
  /\ op' = "reset"
  /\ pre' = packet.offset
  /\ UNCHANGED <<arg, wrote, inWindow, field, parser, row, calls>>

\* packet.readDateTime()
DateReadDateTime ==
  /\ op \in {"new", "reset"}
  /\ \E res \in {readDateTime(packet)} :
       /\ packet' = res.p
       /\ ret' = res.r
  /\ op' = "readDateTime"
  /\ pre' = packet.offset
  /\ UNCHANGED <<arg, wrote, inWindow, field, parser, row, calls>>

DateNext == DateWriteDate \/ DateReset \/ DateReadDateTime

SpecDate == DateInit /\ [][DateNext]_vars

(***************************************************************************)
(* The text-protocol row parser of text_parser.js.  As for the binary one, *)
(* the code compile() generates is a record of what it generates for each  *)
(* column.  The columns of the model are integers, LONGLONG, NULL, TIME,   *)
(* dates, JSON and strings; the place a cell is assigned to is modelled    *)
(* with the row assembly.                                                  *)
(***************************************************************************)
\* readCodeFor(field, fieldNum, options, config) of the text parser
TextReadCodeFor(f, fieldNum, options, config) ==
  CASE f.columnType \in {"TINY", "SHORT", "LONG", "INT24", "YEAR"} ->
         ReadCode(BufferCode("readLengthCodedBuffer", 0), Literal("ascii"),
                  "intAsciiSmall")
    [] f.columnType = "LONGLONG" ->
         ReadCode(BufferCode("readLengthCodedBuffer", 0), Literal("ascii"),
                  IF options.supportBigNumbers \/ config.supportBigNumbers
                  THEN IF options.bigNumberStrings \/ config.bigNumberStrings
                       THEN "null" ELSE "intAscii"
                  ELSE "intAsciiSmall")
    [] f.columnType = "NULL" ->
         ReadCode(BufferCode("readLengthCodedBuffer", 0), Literal("binary"),
                  "alwaysNull")
    [] f.columnType = "TIME" ->
         ReadCode(BufferCode("readLengthCodedBuffer", 0), Literal("ascii"), "null")
    [] f.columnType \in {"DATE", "NEWDATE", "DATETIME", "TIMESTAMP"} ->
         ReadCode(BufferCode("readLengthCodedBuffer", 0), Literal("ascii"),
                  IF config.dateStrings THEN "null" ELSE "dateAscii")
    [] f.columnType = "JSON" ->
         ReadCode(BufferCode("readLengthCodedBuffer", 0), Literal("utf8"),
                  "PacketParser.JSON")
    [] OTHER ->
         ReadCode(BufferCode("readLengthCodedBuffer", 0), FieldEncoding(fieldNum),
                  "null")

\* castField(column, encoding, typeCast, defaultCast, fieldBuffer)
castField(column, encoding, typeCast, defaultCast, fieldBuffer) ==
  run(CastField(FALSE, column, encoding, defaultCast, fieldBuffer), typeCast)

\* options.typeCast once compile took config's for an undefined one: the
\* const cast of compile
TextCast(options, config) ==
  IF config.typeCast # "undefined" /\ options.typeCast = "undefined"
  THEN config.typeCast ELSE options.typeCast

\* what compile leaves in options
TextCompiledOptions(options, config) ==
  [options EXCEPT !.typeCast = TextCast(options, config)]

\* compile(fields, options, config) of the text parser: the function it
\* returns, which holds cast
compileText(fields, options, config) ==
  [cast |-> TextCast(options, config),
   cells |-> [i \in 1..Len(fields) |->
                TextReadCodeFor(fields[i], i - 1, options, config)]]

\* the statement generated for a column when cast is a function
TextCastCell(cast, fields, i, code, s, res) ==
  WithCell(s, res,
           castField(fields[i], EvalEncoding(code.encoding, fields), cast,
                     code.defaultCast, res.r).r,
           <<cast>>)

\* the statement generated for column i, run: packet.readLengthCodedBuffer()
\* when cast === false, castField(...) when cast is a function, textField(...)
\* otherwise
TextStatement(parse, fields, i, s) ==
  IF parse.cast = "false"
  THEN Value({ PlainCell(parse.cells[i], s, read) :
                 read \in {readLengthCodedBuffer(s.p)} })
  ELSE IF IsFunction(parse.cast)
  THEN Value({ TextCastCell(parse.cast, fields, i, parse.cells[i], s, read) :
                 read \in {readLengthCodedBuffer(s.p)} })
  ELSE Value({ PlainCell(parse.cells[i], s, cell) :
                 cell \in {textField(EvalEncoding(parse.cells[i].encoding, fields),
                                     parse.cells[i].defaultCast, s.p)} })

\* the statements for the columns from i on
RECURSIVE TextStatements(_, _, _, _)
TextStatements(parse, fields, i, s) ==
  IF i > Len(fields) \/ IsThrow(s.thrown) THEN s
  ELSE Value({ TextStatements(parse, fields, i + 1, next) :
                 next \in {TextStatement(parse, fields, i, s)} })

\* TextRow(packet, fields, options), parse being what compile returned: the
\* generated function does not read its options
TextRow(parse, p, fields, options) ==
  TextStatements(parse, fields, 1, RowState(p, <<>>, <<>>, <<>>, Undefined))

(***************************************************************************)
(* Specification SpecText: a text parser is compiled for a result set and  *)
(* parses its rows, called with the options of the query or with others.   *)
(***************************************************************************)
\* the column lists of the model
TextFieldLists ==
  { <<Column("TINY", FALSE, "binary")>>,
    <<Column("VAR_STRING", FALSE, "utf8"), Column("LONGLONG", TRUE, "binary")>>,
    <<Column("NULL", FALSE, "binary"), Column("TIME", FALSE, "binary"),
      Column("VAR_STRING", FALSE, "latin1")>> }

\* typeCast in options and in config; the functions are different callbacks
TextOptions ==
  [typeCast : {"undefined", "true", "false", "next", "own"},
   supportBigNumbers : {FALSE}, bigNumberStrings : {FALSE}]

TextConfigs ==
  [typeCast : {"undefined", "true", "buffer"},
   supportBigNumbers : BOOLEAN, bigNumberStrings : {FALSE}]

\* the text the server sends for a column, in two variants
SentText(f, variant) ==
  CASE f.columnType = "TINY" -> IF variant = 1 THEN "7" ELSE "-42"
    [] f.columnType = "LONGLONG" -> IF variant = 1 THEN "5" ELSE "9007199254740993"
    [] f.columnType = "TIME" -> IF variant = 1 THEN "10:20:30" ELSE "-01:00:00"
    [] f.columnType = "JSON" -> IF variant = 1 THEN "1" ELSE "null"
    [] f.columnType = "DATE" -> IF variant = 1 THEN "2022-11-01" ELSE "1999-12-31"
    [] f.columnType = "DATETIME" ->
         IF variant = 1 THEN "2022-11-01 23:59:58" ELSE "1999-12-31 00:00:01.012000"
    [] OTHER -> IF variant = 1 THEN "ab" ELSE ""

\* the cells of the columns from k on: 0xFB for NULL, else the length-coded text
RECURSIVE TextCells(_, _, _)
TextCells(fields, sent, k) ==
  IF k > Len(fields) THEN <<>>
  ELSE (IF k \in sent.nulls THEN <<251>>
        ELSE Cell(Chars(SentText(fields[k], sent.variant))))
       \o TextCells(fields, sent, k + 1)

TextArgs(fields, options, config, sent) ==
  [fields |-> fields, given |-> options, options |-> options, config |-> config,
   passed |-> options, sent |-> sent]

TextInit ==
  /\ \E fields \in TextFieldLists, options \in TextOptions, config \in TextConfigs :
       \E sent \in RowsFor(fields, 1..2) :
         /\ arg = TextArgs(fields, options, config, sent)
         /\ packet = RowPacket(TextCells(fields, sent, 1))
  /\ op = "new"
  /\ parser = Unused /\ row = Unused /\ calls = <<>>
  /\ ret = Undefined /\ pre = 0 /\ wrote = NoWrite /\ inWindow = TRUE
  /\ field = Unused

\* compile(fields, options, config), which also writes to options
TextCompile ==
  /\ op = "new"
  /\ parser' = compileText(arg.fields, arg.options, arg.config)
  /\ arg' = [arg EXCEPT !.options = TextCompiledOptions(arg.options, arg.config),
                        !.passed = TextCompiledOptions(arg.options, arg.config)]
  /\ op' = "compile"
  /\ UNCHANGED <<packet, ret, pre, wrote, inWindow, field, row, calls>>

\* new TextRow(packet, fields, options), with the options compile was given
\* or with those of another query of the same shape
TextParse ==
  /\ op \in {"compile", "packet"}
  /\ \E options \in {arg.options, [arg.options EXCEPT !.typeCast = "own"]} :
       \E s \in {TextRow(parser, packet, arg.fields, options)} :
         /\ packet' = s.p
         /\ row' = [cells |-> s.cells, thrown |-> s.thrown, bitmap |-> s.bitmap]
         /\ calls' = s.called
         /\ arg' = [arg EXCEPT !.passed = options]
  /\ op' = "row"
  /\ pre' = packet.offset
  /\ UNCHANGED <<ret, wrote, inWindow, field, parser>>

\* the next row packet of the result set arrives
TextPacket ==
  /\ op = "row"
  /\ \E sent \in RowsFor(arg.fields, 1..2) :
       /\ arg' = [arg EXCEPT !.sent = sent]
       /\ packet' = RowPacket(TextCells(arg.fields, sent, 1))
  /\ op' = "packet"
  /\ pre' = 0
  /\ row' = Unused /\ calls' = <<>>
  /\ UNCHANGED <<ret, wrote, inWindow, field, parser>>

TextNext == TextCompile \/ TextParse \/ TextPacket

SpecText == TextInit /\ [][TextNext]_vars

(***************************************************************************)
(* PacketParser.geometry and Packet.parseGeometryValue.  Of the well-known *)
(* binary types the point is modelled, a value being the bytes of its two  *)
(* doubles; a type the switch does not know gives null.  The other types   *)
(* (2 to 7) are not in the buffers of the model.                           *)
(***************************************************************************)
\* buffer.readUInt32LE(offset) or buffer.readUInt32BE(offset)
WkbType(b, offset, byteOrder) ==
  IF byteOrder # 0 THEN IntOfNat(NatOfBytes(SubSeq(b, offset + 1, offset + 4)))
  ELSE IntOfNat(NatOfBytes(<<b[offset + 4], b[offset + 3], b[offset + 2], b[offset + 1]>>))

\* parseGeometry() with the cursor at offset
parseGeometry(b, offset) ==
  IF ~InBuffer(b, offset, 5) THEN Throw("RangeError")
  ELSE IF WkbType(b, offset + 1, b[offset + 1]) # 1 THEN Null
  ELSE IF ~InBuffer(b, offset + 5, 16) THEN Throw("RangeError")
  ELSE [t |-> "point", neg |-> b[offset + 1] = 0, d |-> SubSeq(b, offset + 6, offset + 21)]

\* geometry once offset and length have their defaults
GeometryOf(buffer, offset, len) ==
  IF buffer.t = "null" \/ len = 0 \/ len < 4 THEN Null
  ELSE parseGeometry(buffer.d, offset + 4)

\* PacketParser.geometry(buffer, offset, length); an argument left out is
\* undefined, and buffer.length of null throws
geometry(buffer, offset, len) ==
  IF offset.t = "undefined"
  THEN IF buffer.t = "null" THEN Throw("TypeError")
       ELSE GeometryOf(buffer, 0, Len(buffer.d))
  ELSE IF len.t = "undefined"
  THEN IF buffer.t = "null" THEN Throw("TypeError")
       ELSE GeometryOf(buffer, IntOfNat(offset.d), Len(buffer.d) - IntOfNat(offset.d))
  ELSE GeometryOf(buffer, IntOfNat(offset.d), IntOfNat(len.d))

\* PacketParser.geometry(this.readLengthCodedBuffer())
GeometryValueOf(read) ==
  IF IsThrow(read.r) THEN read ELSE Res(read.p, geometry(read.r, Undefined, Undefined))

parseGeometryValue(p) == GeometryValueOf(readLengthCodedBuffer(p))

(***************************************************************************)
(* Specification SpecGeometry: geometry called on a buffer or null, and    *)
(* parseGeometryValue on the cells of a packet.                            *)
(***************************************************************************)
\* a point, little-endian and big-endian, after the four bytes of the SRID
WkbPoints ==
  { <<0, 0, 0, 0, 1, 1, 0, 0, 0>> \o [i \in 1..16 |-> i],
    <<0, 0, 0, 0, 0, 0, 0, 0, 1>> \o [i \in 1..16 |-> 16 - i] }

\* values of a GEOMETRY column: empty, shorter than the SRID, the SRID alone,
\* cut in the type and in the point, of a type not known, whole
GeometryBytes ==
  { <<>>, <<0>>, <<0, 0, 0>>, <<0, 0, 0, 0>>, <<0, 0, 0, 0, 1, 1, 0>>,
    <<0, 0, 0, 0, 1, 1, 0, 0, 0, 7>>, <<0, 0, 0, 0, 1, 9, 0, 0, 0>> }
    \cup WkbPoints

GeometryBuffers == {Null} \cup { Buf(b) : b \in GeometryBytes }

\* the ways to call geometry on a buffer: alone, with an offset, with an
\* offset and the length of what follows it
GeometryCalls ==
  { [buffer |-> buffer, offset |-> offset, length |-> len] :
      buffer \in GeometryBuffers, offset \in {Undefined, Num(<<>>)},
      len \in {Undefined, Num(<<>>), Num(<<3>>)} }
  \cup
  { [buffer |-> Buf(b), offset |-> Num(<<>>), length |-> Num(NatOfInt(Len(b)))] :
      b \in GeometryBytes }

\* packets of one or two GEOMETRY cells: NULL (0xFB) or a length-coded value
GeometryCells == {<<251>>} \cup { Cell(b) : b \in GeometryBytes }

GeometryPackets ==
  { MkPacket([i \in 1..start |-> 0] \o <<Len(first) + Len(rest), 0, 0, 0>>
               \o first \o rest,
             start, start + 4 + Len(first) + Len(rest)) :
      start \in 0..MaxStart, first \in GeometryCells, rest \in {<<>>, <<251>>} }

GeometryInit ==
  /\ packet \in GeometryPackets
  /\ op = "new"
  /\ arg = [buffer |-> Undefined, offset |-> Undefined, length |-> Undefined]
  /\ ret = Undefined
  /\ pre = packet.offset
  /\ wrote = NoWrite
  /\ inWindow = TRUE
  /\ field = Unused /\ parser = Unused /\ row = Unused /\ calls = Unused

\* PacketParser.geometry(buffer, offset, length)
GeometryCall ==
  /\ op = "new"
  /\ \E call \in GeometryCalls :
       /\ arg' = call
       /\ ret' = geometry(call.buffer, call.offset, call.length)
  /\ op' = "geometry"
  /\ UNCHANGED <<packet, pre, wrote, inWindow, field, parser, row, calls>>

\* packet.parseGeometryValue() on the next cell
GeometryParseValue ==
  /\ op \in {"new", "parseGeometryValue"}
  /\ ~IsThrow(ret) /\ packet.offset < packet.end
  /\ \E res \in {parseGeometryValue(packet)} :
       /\ packet' = res.p
       /\ ret' = res.r
  /\ op' = "parseGeometryValue"
  /\ pre' = packet.offset
  /\ UNCHANGED <<arg, wrote, inWindow, field, parser, row, calls>>

GeometryNext == GeometryCall \/ GeometryParseValue

SpecGeometry == GeometryInit /\ [][GeometryNext]_vars

(***************************************************************************)
(* Row assembly.  Both compilers choose, for each column, the place its    *)
(* cell is assigned to: a property of this (under a flat key, or under the *)
(* column's table when nestTables is true) or an element of result.  The   *)
(* value of nestTables is "undefined", "true", or a separator string; a    *)
(* key is the sequence of the strings it is concatenated from.             *)
(***************************************************************************)
Place(on, table, key, index) ==
  [on |-> on, table |-> table, key |-> key, index |-> index]

\* lvalue for field i (from 0)
Lvalue(options, f, i) ==
  IF options.nestTables \notin {"undefined", "true", "false"}
  THEN Place("this", "", <<f.table, options.nestTables, f.name>>, -1)
  ELSE IF options.nestTables = "true"
  THEN Place("this", f.table, <<f.name>>, -1)
  ELSE IF options.rowsAsArray
  THEN Place("result", "", <<>>, i)
  ELSE Place("this", "", <<f.name>>, -1)

\* what compile generates around the cells: const result = new Array(n) and
\* return result under rowsAsArray, and the lvalue of each column
Assembly(fields, options) ==
  [rowsAsArray |-> options.rowsAsArray,
   length |-> Len(fields),
   lvalues |-> [i \in 1..Len(fields) |-> Lvalue(options, fields[i], i - 1)]]

\* the columns assigned to a place, the last of which is the one that stays
AssignedTo(assembly, place) ==
  { i \in 1..assembly.length : assembly.lvalues[i] = place }

LastOf(indices) == CHOOSE i \in indices : \A j \in indices : j <= i

\* element j (from 0) of result: a hole reads as undefined
ResultAt(assembly, cells, j) ==
  IF AssignedTo(assembly, Place("result", "", <<>>, j)) = {} THEN Undefined
  ELSE cells[LastOf(AssignedTo(assembly, Place("result", "", <<>>, j)))]

\* what new TextRow(...) or new BinaryRow(...) evaluates to once the cells are
\* assigned: result where the function returns it, this otherwise
Returned(assembly, cells) ==
  IF assembly.rowsAsArray
  THEN [shape |-> "array",
        entries |-> [j \in 1..assembly.length |-> ResultAt(assembly, cells, j - 1)],
        props |-> {}]
  ELSE [shape |-> "object",
        entries |-> <<>>,
        props |-> { [at |-> assembly.lvalues[i],
                     value |-> cells[LastOf(AssignedTo(assembly, assembly.lvalues[i]))]] :
                      i \in 1..assembly.length }]

NoRow == [shape |-> "none", entries |-> <<>>, props |-> {}]

\* the row of a parser run that ended in state s
RowOf(assembly, s) ==
  [cells |-> s.cells, thrown |-> s.thrown, bitmap |-> s.bitmap,
   value |-> IF IsThrow(s.thrown) THEN NoRow ELSE Returned(assembly, s.cells)]

(***************************************************************************)
(* Specification SpecShape: a result set of either protocol is parsed      *)
(* under each combination of rowsAsArray and nestTables, with and without  *)
(* a cast callback.  Two of the columns have the same name in different    *)
(* tables.                                                                 *)
(***************************************************************************)
Named(column, table, name) == [column EXCEPT !.table = table, !.name = name]

ShapeFieldLists ==
  { <<Named(Column("TINY", FALSE, "binary"), "t", "id")>>,
    <<Named(Column("TINY", FALSE, "binary"), "t", "id"),
      Named(Column("VAR_STRING", FALSE, "utf8"), "t", "name")>>,
    <<Named(Column("TINY", FALSE, "binary"), "t", "id"),
      Named(Column("VAR_STRING", FALSE, "utf8"), "t", "name"),
      Named(Column("TINY", TRUE, "binary"), "u", "id")>> }

ShapeOptions ==
  [rowsAsArray : BOOLEAN, nestTables : {"undefined", "true", "_"},
   binaryCast : {"undefined"}, typeCast : {"undefined", "next"},
   supportBigNumbers : {FALSE}, bigNumberStrings : {FALSE}]

ShapeConfigs ==
  [binaryCast : {"undefined", "true"}, typeCast : {"undefined"},
   dateStrings : {FALSE}, supportBigNumbers : {FALSE}, bigNumberStrings : {FALSE}]

Protocols == {"text", "binary"}

\* the row packet of a protocol
ShapePacketOf(protocol, fields, sent) ==
  IF protocol = "text" THEN RowPacket(TextCells(fields, sent, 1))
  ELSE RowPacket(RowBody(fields, sent))

ShapeInit ==
  /\ \E protocol \in Protocols, fields \in ShapeFieldLists,
        options \in ShapeOptions, config \in ShapeConfigs :
       \E sent \in RowsFor(fields, 1..2) :
         /\ arg = [protocol |-> protocol, fields |-> fields, options |-> options,
                   config |-> config, sent |-> sent]
         /\ packet = ShapePacketOf(protocol, fields, sent)
  /\ op = "new"
  /\ parser = Unused /\ row = Unused /\ calls = <<>>
  /\ ret = Undefined /\ pre = 0 /\ wrote = NoWrite /\ inWindow = TRUE
  /\ field = Unused

\* compile(fields, options, config) of text_parser.js
ShapeTextCompile ==
  /\ op = "new" /\ arg.protocol = "text"
  /\ parser' = [parse |-> compileText(arg.fields, arg.options, arg.config),
                assembly |-> Assembly(arg.fields, arg.options)]
  /\ arg' = [arg EXCEPT !.options = TextCompiledOptions(arg.options, arg.config)]
  /\ op' = "compile"
  /\ UNCHANGED <<packet, ret, pre, wrote, inWindow, field, row, calls>>

\* compile(fields, options, config) of the binary parser
ShapeBinaryCompile ==
  /\ op = "new" /\ arg.protocol = "binary"
  /\ parser' = [parse |-> compile(arg.fields, arg.options, arg.config),
                assembly |-> Assembly(arg.fields, arg.options)]
  /\ arg' = [arg EXCEPT !.options = CompiledOptions(arg.options, arg.config)]
  /\ op' = "compile"
  /\ UNCHANGED <<packet, ret, pre, wrote, inWindow, field, row, calls>>

\* the parser has run to state s
ShapeParsed(s) ==
  /\ packet' = s.p
  /\ row' = RowOf(parser.assembly, s)
  /\ calls' = s.called
  /\ op' = "row"
  /\ pre' = packet.offset
  /\ UNCHANGED <<arg, ret, wrote, inWindow, field, parser>>

\* new TextRow(packet, fields, options)
ShapeTextParse ==
  /\ op \in {"compile", "packet"} /\ arg.protocol = "text"
  /\ \E s \in {TextRow(parser.parse, packet, arg.fields, arg.options)} : ShapeParsed(s)

\* new BinaryRow(packet, fields, options)
ShapeBinaryParse ==
  /\ op \in {"compile", "packet"} /\ arg.protocol = "binary"
  /\ \E s \in {BinaryRow(parser.parse, packet, arg.fields)} : ShapeParsed(s)

\* the next row packet of the result set arrives
ShapePacket ==
  /\ op = "row"
  /\ \E sent \in RowsFor(arg.fields, 1..2) :
       /\ arg' = [arg EXCEPT !.sent = sent]
       /\ packet' = ShapePacketOf(arg.protocol, arg.fields, sent)
  /\ op' = "packet"
  /\ pre' = 0
  /\ row' = Unused /\ calls' = <<>>
  /\ UNCHANGED <<ret, wrote, inWindow, field, parser>>

ShapeNext ==
  \/ ShapeTextCompile \/ ShapeBinaryCompile
  \/ ShapeTextParse \/ ShapeBinaryParse
  \/ ShapePacket

SpecShape == ShapeInit /\ [][ShapeNext]_vars

(***************************************************************************)
(* Specification SpecDateString: dateTime and dateTimeString called on the *)
(* same payload, alone in its buffer or inside a larger one.               *)
(***************************************************************************)
\* payloads of 0, 4, 7 and 11 bytes; in one of them the day and the hour
\* are the same, in two the microseconds have leading zeros
DatePayloads ==
  { <<>>, <<230, 7, 11, 1>>, <<0, 0, 0, 0>>, <<207, 7, 12, 31, 23, 59, 58>>,
    <<230, 7, 4, 4, 4, 5, 6>>,
    <<230, 7, 11, 1, 23, 59, 58, 64, 226, 1, 0>>,
    <<207, 7, 12, 31, 0, 0, 0, 244, 1, 0, 0>>,
    <<1, 0, 1, 2, 3, 4, 5, 0, 0, 0, 0>> }

\* the ways to call a date decoder: on the payload alone in its buffer, with
\* or without the two optional arguments, and on a payload inside a buffer
DateCalls ==
  { [buffer |-> payload, offset |-> Undefined, length |-> Undefined,
     decimals |-> 0] : payload \in DatePayloads }
  \cup
  { [buffer |-> [i \in 1..lead |-> 7] \o payload \o rest, offset |-> Num(NatOfInt(lead)),
     length |-> Num(NatOfInt(Len(payload))), decimals |-> decimals] :
      payload \in DatePayloads, lead \in {0, 1}, rest \in {<<>>, <<9>>},
      decimals \in 0..6 }

\* the elements of a sequence
Range(s) == { s[i] : i \in 1..Len(s) }

DateStringInit ==
  /\ arg \in DateCalls
  /\ op = "new"
  /\ packet = MkPacket(<<0, 0, 0, 0>>, 0, 4)
  /\ ret = Undefined /\ row = Undefined
  /\ calls = <<>>
  /\ pre = 0 /\ wrote = NoWrite /\ inWindow = TRUE
  /\ field = Unused /\ parser = Unused

\* PacketParser.dateTime(buffer, offset, length)
DateStringDateTime ==
  /\ "dateTime" \notin Range(calls)
  /\ \E w \in {DefaultWindow(arg.buffer, arg.offset, arg.length)} :
       row' = dateTime(w.buffer, w.offset, w.length)
  /\ calls' = Append(calls, "dateTime")
  /\ op' = "dateTime"
  /\ UNCHANGED <<packet, arg, ret, pre, wrote, inWindow, field, parser>>

\* PacketParser.dateTimeString(buffer, offset, length, decimals)
DateStringDateTimeString ==
  /\ "dateTimeString" \notin Range(calls)
  /\ ret' = dateTimeString(arg.buffer, arg.offset, arg.length, arg.decimals)
  /\ calls' = Append(calls, "dateTimeString")
  /\ op' = "dateTimeString"
  /\ UNCHANGED <<packet, arg, row, pre, wrote, inWindow, field, parser>>

DateStringNext == DateStringDateTime \/ DateStringDateTimeString

SpecDateString == DateStringInit /\ [][DateStringNext]_vars

(***************************************************************************)
(* Specification SpecDateStrings: binary rows of date columns with each    *)
(* number of decimals, parsed with dateStrings set in config, with and     *)
(* without a cast callback.  A row holds dates, date-times, or date-times  *)
(* with microseconds.                                                      *)
(***************************************************************************)
WithDecimals(column, decimals) == [column EXCEPT !.decimals = decimals]

DateStringsLists ==
  { [i \in 1..Len(fields) |-> [fields[i] EXCEPT !.name = FieldNames[i]]] :
      fields \in
        { <<WithDecimals(Column(type, FALSE, "binary"), decimals)>> :
            type \in {"DATE", "DATETIME", "TIMESTAMP", "NEWDATE"}, decimals \in 0..6 }
        \cup
        { <<Column("TINY", TRUE, "binary"),
            WithDecimals(Column("DATETIME", FALSE, "binary"), decimals),
            WithDecimals(Column("TIMESTAMP", FALSE, "binary"), 0)>> :
            decimals \in 0..6 } }

DateStringsOptions ==
  [binaryCast : {"undefined"}, typeCast : {"undefined"},
   supportBigNumbers : {FALSE}, bigNumberStrings : {FALSE}]

DateStringsConfigs ==
  [binaryCast : {"undefined", "next"}, typeCast : {"undefined"},
   dateStrings : {TRUE}, supportBigNumbers : {FALSE}, bigNumberStrings : {FALSE}]

\* dates, date-times, date-times with microseconds
DateVariants == {1, 2, 4}

DateStringsInit ==
  BinaryStart(DateStringsLists, DateStringsOptions, DateStringsConfigs, DateVariants)

SpecDateStrings == DateStringsInit /\ [][BinaryNext]_vars

(***************************************************************************)
(* Specification SpecInt64Number: int64Number and int64Long(...).toNumber() *)
(* called on the same eight bytes.                                         *)
(***************************************************************************)
\* 64-bit patterns, as the unsigned integers they are: around 2^31 and 2^32
\* in the low word, around 2^53, and with the sign bit set
Int64Values ==
  { "0", "1", "2147483647", "2147483648", "4294967295", "4294967296",
    "6442450944", "9007199254740991", "9007199254740992", "9007199254740993",
    "9223372036854775807", "9223372036854775808", "18446744071562067968",
    "18446744073709551615" }

\* the ways to call a decoder on the value: on a buffer of its own, with or
\* without an offset, and inside a buffer
Int64Calls ==
  { [buffer |-> BytesOfNat(Dec(s), 8), offset |-> offset] :
      s \in Int64Values, offset \in {Undefined, Num(<<>>)} }
  \cup
  { [buffer |-> <<7>> \o BytesOfNat(Dec(s), 8) \o rest, offset |-> Num(<<1>>)] :
      s \in Int64Values, rest \in {<<>>, <<9>>} }

Int64NumberInit ==
  /\ arg \in Int64Calls
  /\ op = "new"
  /\ packet = MkPacket(<<0, 0, 0, 0>>, 0, 4)
  /\ ret = Undefined /\ row = Undefined
  /\ calls = <<>>
  /\ pre = 0 /\ wrote = NoWrite /\ inWindow = TRUE
  /\ field = Unused /\ parser = Unused

\* if (typeof offset === 'undefined') offset = 0
OffsetOrZero(offset) == IF offset.t = "undefined" THEN 0 ELSE IntOfNat(offset.d)

\* PacketParser.int64Number(buffer, offset)
Int64NumberCall ==
  /\ "int64Number" \notin Range(calls)
  /\ ret' = int64Number(arg.buffer, OffsetOrZero(arg.offset))
  /\ calls' = Append(calls, "int64Number")
  /\ op' = "int64Number"
  /\ UNCHANGED <<packet, arg, row, pre, wrote, inWindow, field, parser>>

\* PacketParser.int64Long(buffer, offset).toNumber()
Int64LongToNumber ==
  /\ "toNumber" \notin Range(calls)
  /\ row' = CallToNumber(int64Long(arg.buffer, OffsetOrZero(arg.offset)))
  /\ calls' = Append(calls, "toNumber")
  /\ op' = "toNumber"
  /\ UNCHANGED <<packet, arg, ret, pre, wrote, inWindow, field, parser>>

Int64NumberNext == Int64NumberCall \/ Int64LongToNumber

SpecInt64Number == Int64NumberInit /\ [][Int64NumberNext]_vars

(***************************************************************************)
(* Specification SpecPassThrough: the text rows of a result set parsed by  *)
(* the parser compiled with typeCast = true (textField) and by the one     *)
(* compiled with a callback that returns next() (castField), each on the   *)
(* packet from the start of the row.  row is what the second returned and  *)
(* where it left the cursor, field the same for the first.                 *)
(***************************************************************************)
PassFieldLists ==
  { [i \in 1..Len(fields) |-> [fields[i] EXCEPT !.name = FieldNames[i]]] :
      fields \in
        { <<Column("TINY", FALSE, "binary")>>,
          <<Column("VAR_STRING", FALSE, "utf8"), Column("LONGLONG", TRUE, "binary")>>,
          <<Column("NULL", FALSE, "binary"), Column("TIME", FALSE, "binary"),
            Column("VAR_STRING", FALSE, "latin1")>>,
          <<Column("DATE", FALSE, "binary"), Column("DATETIME", FALSE, "binary")>>,
          <<Column("JSON", FALSE, "utf8")>>,
          <<Column("TINY", FALSE, "binary"), Column("JSON", FALSE, "utf8"),
            Column("VAR_STRING", FALSE, "utf8")>> } }

PassOptions ==
  [typeCast : {"undefined"}, supportBigNumbers : {FALSE}, bigNumberStrings : {FALSE}]

PassConfigs ==
  [typeCast : {"undefined"}, supportBigNumbers : BOOLEAN, bigNumberStrings : {FALSE},
   dateStrings : BOOLEAN]

\* the row packet at offset start of its buffer
PassPacket(start, body) ==
  MkPacket([i \in 1..start |-> 0] \o <<Len(body), 0, 0, 1>> \o body,
           start, start + 4 + Len(body))

PassInit ==
  /\ \E fields \in PassFieldLists, options \in PassOptions, config \in PassConfigs,
        start \in 0..MaxStart :
       \E sent \in RowsFor(fields, 1..2) :
         /\ arg = [fields |-> fields, options |-> options, config |-> config,
                   sent |-> sent]
         /\ packet = PassPacket(start, TextCells(fields, sent, 1))
  /\ op = "new"
  /\ parser = [accelerated |-> Unused, cast |-> Unused]
  /\ row = Unused /\ field = Unused /\ calls = <<>>
  /\ ret = Undefined /\ pre = 0 /\ wrote = NoWrite /\ inWindow = TRUE

WithTypeCast(options, typeCast) == [options EXCEPT !.typeCast = typeCast]

\* compile(fields, options, config) with options.typeCast = true
PassCompileAccelerated ==
  /\ "compile true" \notin Range(calls)
  /\ parser' = [parser EXCEPT !.accelerated =
                  compileText(arg.fields, WithTypeCast(arg.options, "true"), arg.config)]
  /\ calls' = Append(calls, "compile true")
  /\ op' = "compile"
  /\ UNCHANGED <<packet, arg, ret, pre, wrote, inWindow, field, row>>

\* compile(fields, options, config) with options.typeCast = (field, next) => next()
PassCompileCast ==
  /\ "compile next" \notin Range(calls)
  /\ parser' = [parser EXCEPT !.cast =
                  compileText(arg.fields, WithTypeCast(arg.options, "next"), arg.config)]
  /\ calls' = Append(calls, "compile next")
  /\ op' = "compile"
  /\ UNCHANGED <<packet, arg, ret, pre, wrote, inWindow, field, row>>

\* what a parser returned or threw and where it left the cursor
Parsed(s) == [cells |-> s.cells, thrown |-> s.thrown, offset |-> s.p.offset]

\* new TextRow(packet, fields, options) of the parser compiled with true
PassParseAccelerated ==
  /\ "compile true" \in Range(calls) /\ "textField" \notin Range(calls)
  /\ packet.offset = packet.start + 4
  /\ \E s \in {TextRow(parser.accelerated, packet, arg.fields,
                       WithTypeCast(arg.options, "true"))} :
       /\ packet' = s.p
       /\ field' = Parsed(s)
  /\ calls' = Append(calls, "textField")
  /\ op' = "row"
  /\ pre' = packet.offset
  /\ UNCHANGED <<arg, ret, wrote, inWindow, parser, row>>

\* new TextRow(packet, fields, options) of the parser compiled with the callback
PassParseCast ==
  /\ "compile next" \in Range(calls) /\ "castField" \notin Range(calls)
  /\ packet.offset = packet.start + 4
  /\ \E s \in {TextRow(parser.cast, packet, arg.fields,
                       WithTypeCast(arg.options, "next"))} :
       /\ packet' = s.p
       /\ row' = Parsed(s)
  /\ calls' = Append(calls, "castField")
  /\ op' = "row"
  /\ pre' = packet.offset
  /\ UNCHANGED <<arg, ret, wrote, inWindow, parser, field>>

\* packet.reset(), for the other parser to read the row
PassReset ==
  /\ op = "row"
  /\ packet' = reset(packet).p
  /\ op' = "reset"
  /\ UNCHANGED <<arg, ret, pre, wrote, inWindow, parser, field, row, calls>>

PassNext ==
  \/ PassCompileAccelerated \/ PassCompileCast
  \/ PassParseAccelerated \/ PassParseCast
  \/ PassReset

SpecPassThrough == PassInit /\ [][PassNext]_vars

(***************************************************************************)
(* Specification SpecWidth: binary result sets with a column of every      *)
(* width (1, 2, 4 and 8 bytes, length-coded strings and dates), parsed     *)
(* without a callback and with each callback of the model.                 *)
(***************************************************************************)
WidthLists ==
  { [i \in 1..n |-> [order[i] EXCEPT !.name = FieldNames[i]]] :
      order \in { << Column("LONGLONG", TRUE, "binary"), Column("VAR_STRING", FALSE, "utf8"),
                     Column("TINY", FALSE, "binary"), Column("DATETIME", FALSE, "binary"),
                     Column("SHORT", TRUE, "binary") >>,
                  << Column("SHORT", FALSE, "binary"), Column("NULL", FALSE, "binary"),
                     Column("LONGLONG", FALSE, "binary"), Column("LONG", TRUE, "binary"),
                     Column("DATE", FALSE, "binary") >>,
                  << Column("BLOB", FALSE, "latin1"), Column("INT24", FALSE, "binary"),
                     Column("YEAR", TRUE, "binary"), Column("TIMESTAMP", FALSE, "binary"),
                     Column("TINY", TRUE, "binary") >> },
      n \in 1..MaxFields }

WidthOptions ==
  [binaryCast : {"undefined", "false", "next", "buffer"}, typeCast : {"undefined"},
   supportBigNumbers : {FALSE}, bigNumberStrings : {FALSE}]

WidthConfigs ==
  [binaryCast : {"undefined", "own", "nextTwice"}, typeCast : {"undefined"},
   dateStrings : {FALSE}, supportBigNumbers : {FALSE}, bigNumberStrings : {FALSE}]

WidthInit == BinaryStart(WidthLists, WidthOptions, WidthConfigs, WellFormed)

SpecWidth == WidthInit /\ [][BinaryNext]_vars

(***************************************************************************)
(* Specification SpecDateAscii: a calendar date-time as the server sends   *)
(* it in the text protocol ('YYYY-MM-DD', 'YYYY-MM-DD HH:MM:SS' or with    *)
(* '.ffffff') and in the binary protocol (4, 7 or 11 bytes), decoded by    *)
(* PacketParser.dateAscii and by PacketParser.dateTime.  arg is the        *)
(* date-time and the two calls, ret the Date dateAscii made, row the Date  *)
(* dateTime made, calls the decoders called.                               *)
(***************************************************************************)
DateTimes ==
  [year : {1999, 2022}, month : {1, 11, 12}, date : {1, 28}, hours : {0, 23},
   minutes : {0, 59}, seconds : {0, 58}, micros : {0, 12000, 999999}]

\* n written with at least num digits
Digits(num, n) == PadChars(num, NatChars(NatOfInt(n)))

\* the text of a date-time in a column that shows places characters of it
DateText(when, places) ==
  SubSeq(Digits(4, when.year) \o <<45>> \o Digits(2, when.month) \o <<45>>
           \o Digits(2, when.date) \o <<32>> \o Digits(2, when.hours) \o <<58>>
           \o Digits(2, when.minutes) \o <<58>> \o Digits(2, when.seconds) \o <<46>>
           \o Digits(6, when.micros),
         1, places)

\* the binary payload of a date-time: the server leaves out the parts that
\* are zero from the end
DatePayload(when) ==
  BytesOfNat(NatOfInt(when.year), 2) \o <<when.month, when.date>>
    \o (IF when.hours = 0 /\ when.minutes = 0 /\ when.seconds = 0 /\ when.micros = 0
        THEN <<>>
        ELSE <<when.hours, when.minutes, when.seconds>>
               \o (IF when.micros = 0 THEN <<>>
                   ELSE BytesOfNat(NatOfInt(when.micros), 4)))

\* the number of characters a DATE, DATETIME or DATETIME(6) column shows, for
\* the columns that show the date-time whole
PlacesFor(when) ==
  { places \in {10, 19, 26} :
      /\ places = 10 => when.hours = 0 /\ when.minutes = 0 /\ when.seconds = 0
      /\ places < 26 => when.micros = 0 }

\* a decoder's arguments: the value alone in its buffer, or inside a buffer
\* with offset and length
DateCall(bytes, lead) ==
  IF lead = 0
  THEN [buffer |-> bytes, offset |-> Undefined, length |-> Undefined]
  ELSE [buffer |-> [i \in 1..lead |-> 49] \o bytes \o <<50>>,
        offset |-> Num(NatOfInt(lead)), length |-> Num(NatOfInt(Len(bytes)))]

DateAsciiInit ==
  /\ \E when \in DateTimes, lead \in {0, 1} :
       \E places \in PlacesFor(when) :
         arg = [when |-> when, text |-> DateCall(DateText(when, places), lead),
                binary |-> DateCall(DatePayload(when), lead)]
  /\ op = "new"
  /\ packet = MkPacket(<<0, 0, 0, 0>>, 0, 4)
  /\ ret = Undefined /\ row = Undefined
  /\ calls = <<>>
  /\ pre = 0 /\ wrote = NoWrite /\ inWindow = TRUE
  /\ field = Unused /\ parser = Unused

\* PacketParser.dateAscii(buffer, offset, length) on the text
DateAsciiText ==
  /\ "dateAscii" \notin Range(calls)
  /\ \E w \in {DefaultWindow(arg.text.buffer, arg.text.offset, arg.text.length)} :
       ret' = dateAscii(w.buffer, w.offset, w.length)
  /\ calls' = Append(calls, "dateAscii")
  /\ op' = "dateAscii"
  /\ UNCHANGED <<packet, arg, row, pre, wrote, inWindow, field, parser>>

\* PacketParser.dateTime(buffer, offset, length) on the binary payload
DateAsciiBinary ==
  /\ "dateTime" \notin Range(calls)
  /\ \E w \in {DefaultWindow(arg.binary.buffer, arg.binary.offset, arg.binary.length)} :
       row' = dateTime(w.buffer, w.offset, w.length)
  /\ calls' = Append(calls, "dateTime")
  /\ op' = "dateTime"
  /\ UNCHANGED <<packet, arg, ret, pre, wrote, inWindow, field, parser>>

DateAsciiNext == DateAsciiText \/ DateAsciiBinary

SpecDateAscii == DateAsciiInit /\ [][DateAsciiNext]_vars

(***************************************************************************)
(* The length-coded integer as the wire format defines it.                 *)
(***************************************************************************)
\* the integer a caller passes as n (zero for null)
ValueOf(n) ==
  CASE n.t = "number" -> n.d
    [] n.t = "string" -> NatOfChars(n.d)
    [] n.t = "object" -> NatOfBytes(n.d)
    [] OTHER          -> <<>>

\* the narrowest of the length-coded forms that holds x < 2^64
NarrowestForm(x) ==
  IF NatLess(x, NatOfInt(251)) THEN BytesOfNat(x, 1)
  ELSE IF NatLess(x, NatOfInt(65536)) THEN <<252>> \o BytesOfNat(x, 2)
  ELSE IF NatLess(x, NatOfInt(16777216)) THEN <<253>> \o BytesOfNat(x, 3)
  ELSE <<254>> \o BytesOfNat(x, 8)

\* the ways a reader may hand back the integer x: the number when a double
\* holds it exactly, or its decimal string
Faithful(x) ==
  (IF RoundDouble(x) = x THEN {Num(x)} ELSE {}) \cup {Str(NatChars(x))}

\* the n bytes after the leading byte of the last read, as an integer
Following(n) == NatOfBytes(SubSeq(packet.buffer, pre + 2, pre + 1 + n))

Consumed == packet.offset - pre

\* C1: an unsigned readLengthCodedNumber whose form lies inside the buffer
\* returns the leading byte t <= 0xFA and consumes 1 byte; null and 1 byte for
\* 0xFB; the next 2 (3, 8) bytes as a little-endian unsigned value and 3 (4, 9)
\* bytes for 0xFC (0xFD, 0xFE).
C1_ReadForms ==
  (op = "read" /\ ~arg.signed /\ pre + 9 <= Len(packet.buffer)) =>
    \E t \in {packet.buffer[pre + 1]} :
      /\ t <= 250 => ret = Num(NatOfInt(t)) /\ Consumed = 1
      /\ t = 251 => ret = Null /\ Consumed = 1
      /\ t = 252 => ret = Num(Following(2)) /\ Consumed = 3
      /\ t = 253 => ret = Num(Following(3)) /\ Consumed = 4
      /\ t = 254 => ret \in Faithful(Following(8)) /\ Consumed = 9

\* C2: a value written by writeLengthCodedNumber and read back from the same
\* offset by readLengthCodedNumber() comes back equal to it, as a number or as
\* its decimal string, and the read consumes the bytes the write produced.
C2_RoundTrip ==
  (/\ op = "read" /\ ~arg.signed /\ ~arg.bigNumberStrings
   /\ wrote.len >= 0 /\ wrote.n.t # "null" /\ pre = wrote.from) =>
    /\ ret \in Faithful(ValueOf(wrote.n))
    /\ Consumed = wrote.len

\* C5 as stated: after reads that returned without throwing, the cursor is
\* between start and end.
C5_CursorInvariant ==
  ~IsThrow(ret) => packet.start <= packet.offset /\ packet.offset <= packet.end

\* C5, for reads that stay inside the window: after any sequence of reads that
\* returned without throwing, each asking for no more than the bytes left
\* before end (the width the wire format gives the value at the cursor, the
\* length given to readBuffer or skip), start <= offset <= end.
C5_CursorInWindow ==
  (inWindow /\ ~IsThrow(ret)) =>
    packet.start <= packet.offset /\ packet.offset <= packet.end

\* a second read inside the window that ends exactly at end
C5_Witness ==
  /\ inWindow /\ ~IsThrow(ret)
  /\ op = "readLengthCodedString" /\ pre > packet.start + 4
  /\ packet.offset = packet.end /\ packet.end < Len(packet.buffer)

\* the number when the integer lies in [-2^53, 2^53], its decimal string otherwise
NumberOrDecimal(isNeg, mag) ==
  IF NatLeq(mag, TwoPow53) THEN SignedNum(isNeg, mag)
  ELSE Str((IF isNeg THEN <<45>> ELSE <<>>) \o NatChars(mag))

\* the integer the eight bytes at the cursor of the last read hold
TrueInt64(bits, unsigned) ==
  NumberOrDecimal(BitsNeg(bits, unsigned), BitsMag(bits, unsigned))

\* C6: on eight bytes inside the buffer, uint64NumberIfPossible and readInt64
\* (int64NumberIfPossible and readSInt64) return without error the unsigned
\* (signed) integer the bytes hold: a number when it lies in [-2^53, 2^53],
\* its decimal string otherwise.
C6_NumberIfPossible ==
  (/\ op \in {"readInt64", "readSInt64", "uint64NumberIfPossible", "int64NumberIfPossible"}
   /\ InBuffer(packet.buffer, pre, 8)) =>
    /\ ~IsThrow(ret)
    /\ ret = TrueInt64(NatOfBytes(SubSeq(packet.buffer, pre + 1, pre + 8)),
                       op \in {"readInt64", "uint64NumberIfPossible"})

\* C3: lengthCodedNumberLength(n) is the number of bytes by which
\* writeLengthCodedNumber(n) advances the offset.
C3_LengthIsBytesWritten ==
  (op = "write" /\ ~IsThrow(ret)) => lengthCodedNumberLength(arg.n) = Consumed

\* C4: writeLengthCodedNumber(n) emits the narrowest length-coded form of the
\* value of n, whether n is a number, a decimal string or a Long.
C4_NarrowestForm ==
  (op = "write" /\ arg.n.t # "null") =>
    SubSeq(packet.buffer, pre + 1, packet.offset) = NarrowestForm(ValueOf(arg.n))

\* a decimal string of eight characters written in the nine-byte form
C4_Witness ==
  /\ op = "write" /\ arg.n.t = "string" /\ Len(arg.n.d) = 8
  /\ packet.buffer[pre + 1] = 254 /\ Consumed = 9

\* the text of the window the last decoder was called on
WindowText == SubSeq(arg.buffer, arg.offset + 1, arg.offset + arg.length)

\* a text after its leading character c, if it leads with it
After(c, text) == IF Len(text) > 0 /\ text[1] = c THEN Tail(text) ELSE text

\* a text after its '-', if any, and after its '+', if any
Unsigned(text) == After(43, After(45, text))

\* the number nearest to the integer a text holds
NearestNumber(text) ==
  SignedNum(text[1] = 45, RoundDouble(NatOfChars(Unsigned(text))))

\* what intAscii is to return for a text of digits after its sign
IntAsciiOf(text, digits) ==
  IF Len(text) = 0 THEN NaN
  ELSE IF Len(digits) <= 15 \/ (Len(digits) = 16 /\ digits[1] < 57)
  THEN SignedNum(text[1] = 45, NatOfChars(digits))
  ELSE IF Len(digits) = 16 /\ NumberToFixed(NearestNumber(text)) = text
  THEN NearestNumber(text)
  ELSE Str(text)

\* C7: on every window holding an optionally signed decimal integer, at any
\* offset, intAscii returns NaN for the empty window, the exact integer as a
\* number for up to 15 digits or 16 digits with first digit below 9, for 16
\* digits starting with 9 the number iff its toFixed() is the text, and
\* otherwise the text of the window as a string.
C7_IntAscii ==
  op = "intAscii" => ret = IntAsciiOf(WindowText, Unsigned(WindowText))

\* the integer k a text is the canonical decimal of, when |k| < 2^53 - 1
IsSmallDecimal(text) ==
  /\ Len(text) > 0
  /\ \A i \in 1..Len(text) : IsDigit(text[i]) \/ (i = 1 /\ text[i] = 45)
  /\ Len(Unsigned(text)) > 0
  /\ NatChars(NatOfChars(Unsigned(text))) = Unsigned(text)
  /\ NatLess(NatAdd(NatOfChars(Unsigned(text)), NatOfInt(1)), TwoPow53)

\* C8: intAsciiSmall on the decimal digits of an integer k with
\* |k| < 2^53 - 1, '-' first for a negative k, at any offset of the buffer,
\* returns exactly k.
C8_IntAsciiSmallExact ==
  (op = "intAsciiSmall" /\ IsSmallDecimal(WindowText)) =>
    ret = SignedNum(WindowText[1] = 45, NatOfChars(Unsigned(WindowText)))

\* -(2^53 - 2) decoded from a cell inside a packet
C8_Witness ==
  /\ op = "intAsciiSmall" /\ arg.offset > 0
  /\ WindowText = Chars("-9007199254740990")
  /\ ret = SignedNum(TRUE, Dec("9007199254740990"))

\* the value defaultRead is to return for the arguments of the constructor
DefaultReadOf(encoding, defaultCast, fieldBuffer) ==
  IF fieldBuffer \in {Null, Undefined} THEN Null
  ELSE IF defaultCast \in {"intAscii", "intAsciiSmall", "alwaysNull"}
  THEN CastWhole(defaultCast, fieldBuffer.d)
  ELSE IF encoding \in {"binary", "null", "undefined"} THEN fieldBuffer
  ELSE decode(fieldBuffer.d, encoding)

\* the value a callback of the model returns when next() returns read
TypeCastOf(typeCast, read, fieldBuffer) ==
  CASE typeCast \in {"next", "nextTwice"} -> read
    [] typeCast = "buffer" ->
         IF fieldBuffer \in {Null, Undefined} THEN Buf(<<>>) ELSE fieldBuffer
    [] typeCast = "own" -> Str(Chars("own"))

\* C9: run(typeCast) returns the value of typeCast(field, defaultRead), where
\* defaultRead returns null for a null or undefined cell buffer, else
\* defaultCast(cellBuffer) when defaultCast is a function, else the cell
\* buffer when the encoding is 'binary', null or undefined, else the cell
\* decoded under the encoding; every call of defaultRead returns that same
\* value and leaves the cell buffer as it was.
C9_DefaultRead ==
  /\ op = "run" =>
       ret = TypeCastOf(arg.typeCast,
                        DefaultReadOf(arg.encoding, arg.defaultCast, arg.fieldBuffer),
                        arg.fieldBuffer)
  /\ op \in {"new", "run", "defaultRead"} =>
       /\ \A i \in 1..Len(calls) :
            calls[i] = DefaultReadOf(arg.encoding, arg.defaultCast, arg.fieldBuffer)
       /\ field.fieldBuffer =
            (IF arg.fieldBuffer \in {Null, Undefined} THEN Buf(<<>>) ELSE arg.fieldBuffer)

\* a numeric cell of a column with a 'binary' encoding, read three times
C9_Witness ==
  /\ op = "run" /\ arg.typeCast = "nextTwice" /\ Len(calls) = 3
  /\ arg.defaultCast = "intAsciiSmall" /\ arg.encoding = "binary"
  /\ arg.fieldBuffer = Buf(Chars("-7")) /\ ret = SignedNum(TRUE, <<7>>)

(***************************************************************************)
(* The binary row parser with binaryCast off.                              *)
(***************************************************************************)
\* binaryCast is undefined or false in options and in config
BinaryCastOff ==
  /\ arg.options.binaryCast \in {"undefined", "false"}
  /\ arg.config.binaryCast \in {"undefined", "false"}

\* the row the server sent, by the wire format
SentValues ==
  [k \in 1..Len(arg.fields) |->
     IF k \in arg.sent.nulls THEN Null
     ELSE SentCell(arg.fields[k], arg.sent.variant).value]

\* C10: when binaryCast is undefined or false in both options and config, the
\* compiled binary row parser calls no callback (neither options.typeCast nor
\* config.typeCast) and every cell of the row it returns is the value of the
\* column's default decoder
C10_BinaryCastOff ==
  (op = "row" /\ BinaryCastOff) =>
    /\ calls = <<>>
    /\ row.thrown = Undefined
    /\ row.cells = SentValues

\* a row of several columns, one of them NULL, parsed with binaryCast off
\* while typeCast is a function in options and in config
C10_Witness ==
  /\ op = "row" /\ BinaryCastOff
  /\ IsFunction(arg.options.typeCast) /\ IsFunction(arg.config.typeCast)
  /\ Len(arg.fields) > 1
  /\ Cardinality(arg.sent.nulls) = 1
  /\ row.cells = SentValues

(***************************************************************************)
(* The null bitmap of a binary row.                                        *)
(***************************************************************************)
\* the bytes of the cells the server sent in the row
SentBytes == SentCells(arg.fields, arg.sent, 1)

\* the parser read one status byte, then len bitmap bytes, then the cells
BitmapRead(len) ==
  /\ Len(row.bitmap) = len
  /\ row.bitmap = SubSeq(packet.buffer, pre + 2, pre + 1 + len)
  /\ packet.offset = pre + 1 + len + Len(SentBytes)

\* C11 as stated: the parser consumes one status byte and then a null bitmap
\* of ceil((n + 9) / 8) bytes before the first cell
C11_BitmapCeiling ==
  (op = "row") => BitmapRead((Len(arg.fields) + 9 + 7) \div 8)

\* C11: for a row of n columns the compiled parser consumes one status byte
\* and then a null bitmap of exactly floor((n + 9) / 8) bytes before the first
\* cell
C11_BitmapLength ==
  (op = "row") => BitmapRead((Len(arg.fields) + 9) \div 8)

\* a row of six columns parsed after a bitmap of one byte, where the ceiling
\* would be two
C11_Witness ==
  /\ op = "row"
  /\ Len(arg.fields) = 6
  /\ BitmapRead(1)
  /\ row.thrown = Undefined

\* bit b of a byte
BitSet(byte, b) == (byte \div IntPow2(b)) % 2 = 1

PrepareBody ==
  /\ packet.start = 0 /\ packet.end = Len(packet.buffer)
  /\ Slice(packet.buffer, 4, Len(packet.buffer))
       = <<22>> \o encode(arg.query, arg.encoding)
  /\ packet.offset = packet.end

\* the frame header reads this length and this sequence id
HeaderReads(len, sequenceId) ==
  SubSeq(packet.buffer, 1, 4)
    = <<len % 256, (len \div 256) % 256, len \div 65536, sequenceId>>

\* C13 as stated: the packet toPacket returns has the body and a frame header
\* that reads length = 1 + byteLength(query), sequenceId = 0
C13_ToPacketHeader ==
  (op = "toPacket") =>
    PrepareBody /\ HeaderReads(Len(packet.buffer) - 4, 0)

\* C13: the packet toPacket returns has as body the command byte 0x16 and
\* exactly the encoded query bytes with no terminator; its frame header, once
\* writeHeader(sequenceId) wrote it, reads length = 1 + byteLength(query) as
\* u24 little-endian and that sequence id
C13_PreparePacket ==
  /\ (op = "toPacket") => PrepareBody
  /\ (op = "writeHeader") =>
       /\ PrepareBody
       /\ HeaderReads(1 + Len(encode(arg.query, arg.encoding)), ret)

\* SELECT 1 in utf8 with the header written for sequence id 0
C13_Witness ==
  /\ op = "writeHeader"
  /\ arg.query = Chars("SELECT 1") /\ arg.encoding = "utf8"
  /\ packet.buffer = <<9, 0, 0, 0, 22, 83, 69, 76, 69, 67, 84, 32, 49>>

(***************************************************************************)
(* The error of an error frame.                                            *)
(***************************************************************************)
\* the 2-byte little-endian error code of the frame
FrameErrno ==
  packet.buffer[packet.start + 6] + 256 * packet.buffer[packet.start + 7]

\* C14: the error asError produces has as errno the 2-byte little-endian
\* error code of the frame and as code the symbolic name the static table has
\* for errno, or the numeric error code itself when the table has none; code
\* is never undefined
C14_ErrorCode ==
  (op = "asError") =>
    /\ ret.errno = Num(NatOfInt(FrameErrno))
    /\ ret.code # Undefined
    /\ ret.code = IF ErrorCodeToName(FrameErrno) # Undefined
                  THEN ErrorCodeToName(FrameErrno)
                  ELSE Num(NatOfInt(FrameErrno))

\* the part of C14 the code keeps: errno, and the name when the table has one
C14_KnownCode ==
  (op = "asError") =>
    /\ ret.errno = Num(NatOfInt(FrameErrno))
    /\ ret.code = ErrorCodeToName(FrameErrno)

(***************************************************************************)
(* Cells the column's decoder cannot interpret.                            *)
(***************************************************************************)
\* C15: per-type value decoding never throws: whatever the cells hold,
\* parsing the row returns normally, with a cell for every column
C15_NeverThrows ==
  (op = "row") =>
    /\ row.thrown = Undefined
    /\ Len(row.cells) = Len(arg.fields)

\* what does hold: a row throws only from JSON.parse or from the
\* NumberIfPossible decoders, and a date that cannot be one is the invalid date
C15_ThrowsOnlyThere ==
  (op = "row") =>
    /\ (row.thrown # Undefined) =>
         \E col \in 1..Len(arg.fields) :
           /\ col \notin arg.sent.nulls
           /\ col = Len(row.cells) + 1
           /\ \/ arg.fields[col].columnType = "JSON" /\ arg.sent.variant = 3
                   /\ row.thrown = Throw("SyntaxError")
              \/ arg.fields[col].columnType = "LONGLONG"
                   /\ parser.cells[col].code.defaultCast
                        \in {"uint64NumberIfPossible", "int64NumberIfPossible"}
                   /\ row.thrown = Throw("TypeError")
    /\ \A col \in 1..Len(row.cells) :
         (arg.fields[col].columnType \in {"DATETIME", "TIMESTAMP"}
            /\ arg.sent.variant = 3 /\ col \notin arg.sent.nulls)
           => row.cells[col] = [t |-> "Date", neg |-> FALSE, d |-> <<>>]

\* the leading byte of the last read, -1 when the cursor was outside the buffer
LeadingByte == At(packet.buffer, pre)

\* C16 as stated: readLengthCodedNumber fails exactly when the leading byte
\* is 0xFF; for every leading byte in 0x00..0xFE it returns a value or null
\* without throwing.
C16_FailsOnlyOnFF ==
  (op = "readLengthCodedNumber") => (IsThrow(ret) <=> LeadingByte = 255)

\* C16, with the reads that run out of bytes: readLengthCodedNumber throws
\* Error exactly when the leading byte is 0xFF or the cursor is outside the
\* buffer, RangeError exactly when the leading byte is 0xFE and fewer than
\* eight bytes follow it in the buffer, and otherwise returns a number, a
\* string, NaN or null.
C16_TagFailures ==
  (op = "readLengthCodedNumber") =>
    /\ (ret = Throw("Error")) <=> (LeadingByte \in {255, -1})
    /\ (ret = Throw("RangeError")) <=>
         (LeadingByte = 254 /\ pre + 9 > Len(packet.buffer))
    /\ ret.t \in {"Error", "RangeError", "number", "string", "NaN", "null"}
    /\ (LeadingByte = 251) <=> (ret = Null)

\* the leading byte 0xFF was read and refused
C16_Witness ==
  /\ op = "readLengthCodedNumber" /\ LeadingByte = 255 /\ ret = Throw("Error")
  /\ pre < packet.end

\* the twelve bytes writeDate is to leave for the date d
DateBytes(d) ==
  <<11>> \o BytesOfNat(NatOfInt(d.year), 2)
    \o <<d.month + 1, d.date, d.hours, d.minutes, d.seconds>>
    \o BytesOfNat(NatOfInt(d.milliseconds * 1000), 4)

\* a date with a year in 0..65535 was written whole and is read from where it
\* was written
ReadBack ==
  /\ op = "readDateTime" /\ wrote.len = 12 /\ pre = wrote.from
  /\ wrote.n.year >= 0 /\ wrote.n.year <= 65535

\* C17: for a local date-time d with a year in 0..65535, writeDate(d) writes
\* the length byte 11 and the 11-byte payload (micros = milliseconds x 1000)
\* and advances the offset by 12; readDateTime from the same offset gives a
\* date with the year, month, day, hour, minute, second and millisecond of d
\* and consumes the same 12 bytes.
C17_DateRoundTrip ==
  /\ (op = "writeDate" /\ ~IsThrow(ret)) =>
       /\ Consumed = 12
       /\ SubSeq(packet.buffer, pre + 1, pre + 12) = DateBytes(wrote.n)
  /\ ReadBack =>
       /\ ret.t = "Date" /\ ret.d # <<>>
       /\ LocalFields(ret) = wrote.n
       /\ Consumed = 12

\* what does hold: the bytes written and consumed for every year, and the
\* fields read back for the years from 100 on
C17_FromYear100 ==
  /\ (op = "writeDate" /\ ~IsThrow(ret)) =>
       /\ Consumed = 12
       /\ SubSeq(packet.buffer, pre + 1, pre + 12) = DateBytes(wrote.n)
  /\ ReadBack =>
       /\ ret.t = "Date" /\ ret.d # <<>>
       /\ Consumed = 12
       /\ (wrote.n.year >= 100) => LocalFields(ret) = wrote.n
       /\ (wrote.n.year < 100) =>
            LocalFields(ret) = [wrote.n EXCEPT !.year = @ + 1900]

\* the row a parser compiled with the callback typeCast in options returns
\* for the packet, fields and options of the last call
RowWith(typeCast) ==
  TextRow(compileText(arg.fields, [arg.given EXCEPT !.typeCast = typeCast], arg.config),
          [packet EXCEPT !.offset = pre], arg.fields, arg.passed)

\* C18: the compiled row parser is pure over (packet, fields, options): a
\* text parser compiled with one typeCast callback in effect and one compiled
\* for the same columns with another return equal rows for the same packet,
\* fields and options, and compile leaves the caller's options as they were.
C18_PureParser ==
  /\ (op # "new") => arg.options = arg.given
  /\ (op = "row" /\ IsFunction(parser.cast)) =>
       \A typeCast \in {"next", "own", "buffer"} :
         /\ RowWith(typeCast).cells = row.cells
         /\ RowWith(typeCast).thrown = row.thrown

\* what does hold: compile writes the cast in effect to options.typeCast and
\* nothing else, and the row is the one of the cast the parser holds, whatever
\* options it is called with
C18_CapturedCast ==
  /\ (op # "new") =>
       /\ [arg.options EXCEPT !.typeCast = arg.given.typeCast] = arg.given
       /\ arg.options.typeCast = parser.cast
       /\ parser.cast = TextCast(arg.given, arg.config)
  /\ (op = "row") =>
       \A options \in TextOptions :
         TextRow(parser, [packet EXCEPT !.offset = pre], arg.fields, options).cells
           = row.cells

\* C19: geometry returns null, without throwing, whenever its buffer is null
\* or shorter than 4 bytes; parseGeometryValue on a NULL cell (0xFB) returns
\* null.
C19_GeometryNull ==
  /\ (op = "geometry" /\ (arg.buffer = Null \/ Len(arg.buffer.d) < 4)) => ret = Null
  /\ (op = "parseGeometryValue" /\ LeadingByte = 251) => ret = Null

\* what does hold: a buffer shorter than 4 bytes gives null; null gives null
\* when both offset and length are given, and TypeError otherwise
C19_NullBuffer ==
  /\ (op = "geometry" /\ arg.buffer # Null /\ Len(arg.buffer.d) < 4) => ret = Null
  /\ (op = "geometry" /\ arg.buffer = Null) =>
       ret = IF arg.offset = Undefined \/ arg.length = Undefined
             THEN Throw("TypeError") ELSE Null
  /\ (op = "parseGeometryValue" /\ LeadingByte = 251) => ret = Throw("TypeError")

\* C20: a leading 0xFE is the 8-byte form only in a packet whose length() is
\* at least 13: no packet for which isEOF() holds at the cursor is decoded by
\* readLengthCodedNumber as an 8-byte integer.
C20_EofNotDecoded ==
  (op = "readLengthCodedNumber" /\ isEOF([packet EXCEPT !.offset = pre])) =>
    ~(ret.t \in {"number", "string"} /\ Consumed = 9)

\* what does hold: a leading 0xFE is decoded as the 8-byte form whenever
\* eight bytes follow it in the buffer, whatever the length of the packet
C20_DecodedFromBuffer ==
  (op = "readLengthCodedNumber" /\ LeadingByte = 254) =>
    IF pre + 9 <= Len(packet.buffer)
    THEN ret.t \in {"number", "string"} /\ Consumed = 9
    ELSE ret = Throw("RangeError")


\* the value a parser without rowsAsArray gives column i of the row sent
\* (by either protocol, with the cast in effect)
CellsDecoded == Len(row.cells) = Len(arg.fields)

\* C21: whenever rowsAsArray is set, whatever nestTables is, both row parsers
\* return an ordered sequence of length n whose i-th entry is the decoded
\* value of column i.
C21_RowsAsArray ==
  (op = "row" /\ arg.options.rowsAsArray /\ ~IsThrow(row.thrown)) =>
    /\ row.value.shape = "array"
    /\ Len(row.value.entries) = Len(arg.fields)
    /\ CellsDecoded
    /\ \A i \in 1..Len(arg.fields) : row.value.entries[i] = row.cells[i]

\* what does hold: under rowsAsArray the row is a sequence of length n; its
\* entries are the cells when nestTables is neither true nor a string, and
\* all of them holes when it is one of the two
C21_NestTablesFirst ==
  (op = "row" /\ arg.options.rowsAsArray /\ ~IsThrow(row.thrown)) =>
    /\ row.value.shape = "array"
    /\ Len(row.value.entries) = Len(arg.fields)
    /\ CellsDecoded
    /\ \A i \in 1..Len(arg.fields) :
         row.value.entries[i] =
           IF arg.options.nestTables = "undefined" THEN row.cells[i] ELSE Undefined


\* the window of the call in arg
CallWindow == DefaultWindow(arg.buffer, arg.offset, arg.length)

\* both decoders were called on a payload of 4, 7 or 11 bytes
BothDecoded ==
  /\ Range(calls) = {"dateTime", "dateTimeString"}
  /\ CallWindow.length \in {4, 7, 11}

\* the six fields dateTime extracted: those of the Date it made, or zeros
\* when it returned the invalid date
Extracted == IF row.d = <<>> THEN <<0, 0, 0, 0, 0, 0>> ELSE SubSeq(row.d, 1, 6)

Padded(num, i) == PadChars(num, NatChars(NatOfInt(i)))

\* 'YYYY-MM-DD' and ' HH:MM:SS' of six fields
DatePrinted(f) == Padded(4, f[1]) \o <<45>> \o Padded(2, f[2]) \o <<45>> \o Padded(2, f[3])

TimePrinted(f) ==
  <<32>> \o Padded(2, f[4]) \o <<58>> \o Padded(2, f[5]) \o <<58>> \o Padded(2, f[6])

\* C22: for every payload of length 4, 7 or 11 the year, month, day, hour,
\* minute and second that dateTimeString prints are the field values dateTime
\* extracts from the same bytes, each zero-padded.
C22_SameLayout ==
  BothDecoded =>
    /\ ret.t = "string"
    /\ SubSeq(ret.d, 1, 10) = DatePrinted(Extracted)
    /\ (CallWindow.length > 6) => SubSeq(ret.d, 11, 19) = TimePrinted(Extracted)

\* what does hold: the year, the month and the time printed are dateTime's;
\* the day printed is the byte at +4, which is the hour of a payload of 7 or
\* 11 bytes and lies outside a payload of 4, where the call throws TypeError
\* when the buffer ends with the payload
C22_DayFromHourByte ==
  BothDecoded =>
    IF At(arg.buffer, CallWindow.offset + 4) < 0
    THEN ret = Throw("TypeError")
    ELSE /\ ret.t = "string"
         /\ SubSeq(ret.d, 1, 10) =
              DatePrinted([Extracted EXCEPT ![3] = At(arg.buffer, CallWindow.offset + 4)])
         /\ (CallWindow.length > 6) => SubSeq(ret.d, 11, 19) = TimePrinted(Extracted)


\* the date columns of the row sent that are not NULL
DateCells ==
  { i \in 1..Len(arg.fields) :
      /\ arg.fields[i].columnType \in {"DATE", "DATETIME", "TIMESTAMP", "NEWDATE"}
      /\ i \notin arg.sent.nulls }

\* the payload sent for column i and the date-time it encodes
SentPayload(i) == Tail(SentCell(arg.fields[i], arg.sent.variant).bytes)

SentDate(i) == SentCell(arg.fields[i], arg.sent.variant).value.d

\* the microseconds of an 11-byte payload, zero-padded to 6 characters
SentMicros(i) == PadChars(6, NatChars(NatOfBytes(SubSeq(SentPayload(i), 8, 11))))

\* the full string of the cell: the date, the time of a payload of 7 bytes or
\* more, the fraction of one of 11 truncated to the decimals of the column
FullDateString(i) ==
  DatePrinted(SentDate(i))
    \o (IF Len(SentPayload(i)) > 6 THEN TimePrinted(SentDate(i)) ELSE <<>>)
    \o (IF Len(SentPayload(i)) > 10 /\ arg.fields[i].decimals > 0
        THEN <<46>> \o SubSeq(SentMicros(i), 1, arg.fields[i].decimals)
        ELSE <<>>)

\* a row was parsed under dateStrings
DateStringsRow == op = "row" /\ arg.config.dateStrings

\* C23: with dateStrings, every non-NULL DATE/DATETIME/TIMESTAMP/NEWDATE cell
\* of a column with decimals = d is decoded over the whole cell buffer: the
\* result is the full date(-time) string with the fraction truncated to d
\* digits, never undefined and never a shortened date.
C23_FullDateString ==
  DateStringsRow =>
    /\ ~IsThrow(row.thrown)
    /\ Len(row.cells) = Len(arg.fields)
    /\ \A i \in DateCells : row.cells[i] = Str(FullDateString(i))

\* what the first date cell of the row is decoded to: dateTimeString on the
\* first d bytes of the cell when d > 0, on the whole cell when d = 0, and
\* with no decimals in either case
FirstDate == CHOOSE i \in DateCells : \A j \in DateCells : i <= j

AsDecoded(i) ==
  DateTimeStringOf(SentPayload(i), 0,
                   IF arg.fields[i].decimals > 0 THEN arg.fields[i].decimals
                   ELSE Len(SentPayload(i)), 0)

\* what does hold: the decimals of the column are passed as the length, so
\* the first date cell is undefined for d = 1..3 and at most a date for
\* d = 4..6 (where the row throws TypeError when the cell is a date of 4
\* bytes); for d = 0 the whole cell is decoded, its fraction not truncated
C23_DecimalsAsLength ==
  (DateStringsRow /\ DateCells # {}) =>
    IF IsThrow(AsDecoded(FirstDate))
    THEN row.thrown = AsDecoded(FirstDate) /\ Len(row.cells) = FirstDate - 1
    ELSE /\ Len(row.cells) >= FirstDate
         /\ row.cells[FirstDate] = AsDecoded(FirstDate)
         /\ arg.fields[FirstDate].decimals \in 1..3 => row.cells[FirstDate] = Undefined


\* the eight bytes of the call in arg, as an unsigned integer, and their low
\* 32-bit word
CallBits ==
  NatOfBytes(SubSeq(arg.buffer, OffsetOrZero(arg.offset) + 1, OffsetOrZero(arg.offset) + 8))

CallLow ==
  NatOfBytes(SubSeq(arg.buffer, OffsetOrZero(arg.offset) + 1, OffsetOrZero(arg.offset) + 4))

BothConverted == Range(calls) = {"int64Number", "toNumber"}

\* C24: int64Number returns the two's-complement signed value of the eight
\* bytes, exactly when |v| <= 2^53 (also when the low word has its top bit
\* set), and agrees on every input with int64Long(...).toNumber().
C24_Int64Number ==
  BothConverted =>
    /\ ret = row
    /\ NatLeq(BitsMag(CallBits, FALSE), TwoPow53) =>
         ret = SignedNum(BitsNeg(CallBits, FALSE), BitsMag(CallBits, FALSE))

\* v - 2^32 as a double, for v >= 0
Less2Pow32(v) ==
  IF NatLess(v, Dec("4294967296")) THEN SignedNum(TRUE, NatSub(Dec("4294967296"), v))
  ELSE Num(RoundDouble(NatSub(v, Dec("4294967296"))))

\* what does hold: a negative value is that of toNumber(), and so is a value
\* v >= 0 whose low word is below 2^31; for v >= 0 with the top bit of the
\* low word set, int64Number returns v - 2^32
C24_LowWordSigned ==
  BothConverted =>
    /\ row = SignedNum(BitsNeg(CallBits, FALSE), RoundDouble(BitsMag(CallBits, FALSE)))
    /\ ret = IF ~BitsNeg(CallBits, FALSE) /\ ~NatLess(CallLow, Dec("2147483648"))
             THEN Less2Pow32(CallBits)
             ELSE row


\* the row was parsed by both parsers
BothParsed == {"textField", "castField"} \subseteq Range(calls)

\* C25: for every column type, sequence of cells and starting offset of the
\* row, the text parser compiled with a callback that returns next() returns
\* the same row and leaves the cursor at the same offset as the parser
\* compiled with typeCast = true.
C25_PassThrough == BothParsed => row = field

\* the JSON columns of the row that are not NULL
JsonCells ==
  { i \in 1..Len(arg.fields) :
      arg.fields[i].columnType = "JSON" /\ i \notin arg.sent.nulls }

\* the LONGLONG columns of the row that hold a value of 16 digits starting
\* with 9 and are decoded by intAscii
WideCells ==
  { i \in 1..Len(arg.fields) :
      /\ arg.fields[i].columnType = "LONGLONG" /\ i \notin arg.sent.nulls
      /\ arg.sent.variant = 2 /\ arg.config.supportBigNumbers }

\* what does hold: the two parsers agree on a row without a JSON value and
\* without a 16-digit LONGLONG under supportBigNumbers.  On the first JSON
\* value of a row the parser compiled with true throws SyntaxError, the text
\* it parses being buffer.slice(offset, length) of the packet's buffer, and
\* the other decodes the value and the cells after it; on the 16-digit value
\* the parser compiled with true returns the text of
\* buffer.toString('ascii', offset, length), not that of the cell
C25_JsonSlice ==
  BothParsed =>
    IF JsonCells = {} /\ WideCells = {} THEN row = field
    ELSE IF WideCells = {}
    THEN /\ field.thrown = Throw("SyntaxError")
         /\ ~IsThrow(row.thrown) /\ Len(row.cells) = Len(arg.fields)
         /\ field.cells = SubSeq(row.cells, 1, Len(field.cells))
         /\ Len(field.cells) + 1 \in JsonCells
         /\ \A i \in JsonCells : i > Len(field.cells)
    ELSE /\ row.offset = field.offset
         /\ \A i \in 1..Len(arg.fields) : (row.cells[i] = field.cells[i]) <=> i \notin WideCells


(***************************************************************************)
(* The bytes each column of a binary row consumes.                         *)
(***************************************************************************)
\* the row as it is when the statement of column k is about to run
BeforeCell(k) ==
  FieldStatements(parser, SubSeq(arg.fields, 1, k - 1), 1,
        ReadBitmap(readInt8([packet EXCEPT !.offset = pre]).p,
                   parser.nullBitmapLength, <<>>))

\* the width of a column's type on the wire, bytes being what the server sent
TypeWidth(f, bytes) ==
  CASE f.columnType = "TINY" -> 1
    [] f.columnType \in {"SHORT", "YEAR"} -> 2
    [] f.columnType \in {"LONG", "INT24"} -> 4
    [] f.columnType = "LONGLONG" -> 8
    [] f.columnType = "NULL" -> 0
    [] OTHER -> 1 + bytes[1]

\* where the cell of column k starts in the packet the server sent
SentAt(k) ==
  4 + 1 + ((Len(arg.fields) + 9) \div 8)
    + Len(SentCells(SubSeq(arg.fields, 1, k - 1), arg.sent, 1))

\* what statement k did to the row: nothing to the offset and null (or the
\* callback's answer to a null cell buffer) if the null bit is set, the width
\* of the type consumed otherwise
CellConsumed(k, before, after) ==
  /\ before.p.offset = SentAt(k)
  /\ IF k \in arg.sent.nulls
     THEN /\ after.p.offset = before.p.offset
          /\ ~IsThrow(after.thrown)
          /\ after.cells[k] =
               IF parser.cast = "null" THEN Null
               ELSE binaryField(arg.fields[k],
                                EvalEncoding(parser.cells[k].code.encoding, arg.fields),
                                parser.cast, parser.cells[k].code.defaultCast, Null).r
     ELSE /\ after.p.offset - before.p.offset
               = TypeWidth(arg.fields[k], SentCell(arg.fields[k], arg.sent.variant).bytes)
          /\ Len(SentCell(arg.fields[k], arg.sent.variant).bytes)
               = after.p.offset - before.p.offset

\* C26: in a binary row a column whose null bit is set yields null (with a
\* cast, what the cast adapter makes of a null cell buffer) and leaves the
\* packet offset as it was, every other column consumes the width of its type
\* (1, 2, 4 or 8 bytes, or the length prefix and the length), so that cell k
\* is read where the cell before it ended, with and without a cast callback
C26_CellWidths ==
  (op = "row") =>
    /\ \A k \in 1..Len(arg.fields) :
         ~IsThrow(BeforeCell(k).thrown) =>
           CellConsumed(k, BeforeCell(k), BeforeCell(k + 1))
    /\ packet.offset = BeforeCell(Len(arg.fields) + 1).p.offset
    /\ row.cells = BeforeCell(Len(arg.fields) + 1).cells

\* a row LONGLONG, string, TINY, DATETIME whose third column is NULL, parsed
\* with a callback: 8 + 3 + 0 + 5 bytes consumed after the bitmap
C26_Witness ==
  /\ op = "row"
  /\ Len(arg.fields) = 4
  /\ arg.fields[1].columnType = "LONGLONG"
  /\ arg.sent = SentRow({3}, 1)
  /\ parser.cast = "next"
  /\ row.thrown = Undefined
  /\ row.cells[3] = Null
  /\ Len(calls) = 4
  /\ pre = 4 /\ packet.offset = 4 + 2 + 8 + 3 + 5

\* the same row parsed without a callback
C26_WitnessPlain ==
  /\ op = "row"
  /\ Len(arg.fields) = 4
  /\ arg.fields[1].columnType = "LONGLONG"
  /\ arg.sent = SentRow({3}, 1)
  /\ parser.cast = "null"
  /\ row.cells[3] = Null
  /\ packet.offset = 4 + 2 + 8 + 3 + 5


(***************************************************************************)
(* Text and binary date decoding.                                          *)
(***************************************************************************)
\* both decoders have been called on the date-time
BothDated == "dateAscii" \in Range(calls) /\ "dateTime" \in Range(calls)

\* C27: for every calendar date-time dateAscii on its text form passes the
\* same year, zero-based month, day, hour, minute, second and milliseconds to
\* the Date constructor as dateTime on its binary encoding
C27_SameDate == BothDated => ret = row

\* what the two pass to the constructor: dateTime the date-time with the
\* month less one, dateAscii the same with the month as written
C27_MonthAsWritten ==
  BothDated =>
    /\ row.d = << arg.when.year, arg.when.month, arg.when.date, arg.when.hours,
                  arg.when.minutes, arg.when.seconds, arg.when.micros \div 1000 >>
    /\ ret.d = [row.d EXCEPT ![2] = @ + 1]

====
